---- MODULE Spec2Model ----
(***************************************************************************)
(* ChatX: the client-side chat synchronisation core.                       *)
(*                                                                         *)
(* The Remote Store (Firestore) holds the collections users, chats,        *)
(* chats/<id>/messages and chatRequests.  FirebaseService (js/firebase.js) *)
(* issues the remote calls; every `await` of a remote call is one step of  *)
(* the model, so calls of different invocations interleave at exactly the  *)
(* places the single-threaded event loop lets them interleave.             *)
(*                                                                         *)
(* Strings that the code compares or concatenates (user ids, chat ids) are *)
(* sequences of one-character strings.                                     *)
(***************************************************************************)
EXTENDS Integers, Sequences, FiniteSets, TLC

(***************************************************************************)
(* Bounds of the model.                                                    *)
(***************************************************************************)
\* invocations of FirebaseService methods started in one behaviour
MaxOps == 3
\* invocations in flight at the same time
MaxCalls == 2
\* remote calls that reject (network / permission failure) in one behaviour
MaxFailures == 1

(***************************************************************************)
(* Values.                                                                 *)
(***************************************************************************)
UserIds == {<<"a">>, <<"b">>, <<"c">>}
\* latest server timestamp of a chat stored before the session starts
MaxSeedTime == 2
\* the users whose FirebaseService invocations the request and block model runs
Actors == {<<"a">>, <<"b">>}
\* the signed-in user of the session model (currentUserId)
Viewer == <<"a">>
Texts == {"hello"}
NoDoc == [exists |-> FALSE]
Responses == {"accepted", "rejected"}
Terminal == {"accepted", "rejected", "blocked"}
Slots == 1..MaxCalls

\* UTF-16 code unit of the characters user ids are made of
CharCode(ch) ==
    CASE ch = "_" -> 95
      [] ch = "a" -> 97
      [] ch = "b" -> 98
      [] ch = "c" -> 99
      [] OTHER -> 0

\* JavaScript's `<` on two strings: code unit by code unit, a proper prefix
\* is smaller
RECURSIVE StrLess(_, _)
StrLess(s, t) ==
    IF t = <<>> THEN FALSE
    ELSE IF s = <<>> THEN TRUE
    ELSE IF CharCode(Head(s)) # CharCode(Head(t))
         THEN CharCode(Head(s)) < CharCode(Head(t))
    ELSE StrLess(Tail(s), Tail(t))

\* an id that keeps the order of its arguments
generateChatId_concat(userId1, userId2) == userId1 \o <<"_">> \o userId2

\* utils.generateChatId
generateChatId(userId1, userId2) ==
    IF StrLess(userId1, userId2)
    THEN userId1 \o <<"_">> \o userId2
    ELSE userId2 \o <<"_">> \o userId1

ChatIds == {generateChatId(p[1], p[2]) : p \in {q \in UserIds \X UserIds : q[1] # q[2]}}

(***************************************************************************)
(* State.                                                                  *)
(***************************************************************************)
VARIABLES
    \* ---- Remote Store ----
    chatRequests,   \* collection chatRequests: sequence of docs, the index is the doc id
    chats,          \* collection chats: chat id -> doc, or NoDoc
    messages,       \* chats/<id>/messages: chat id -> sequence of docs
    blockedUsers,   \* users/<uid>.blockedUsers
    clock,          \* the server's time, the value serverTimestamp() resolves to
    \* ---- invocations of FirebaseService methods ----
    calls,          \* slot -> the invocation running in it, with its locals
    returned,       \* the invocation that returned in the last step (Idle: none)
    started,        \* invocations started so far
    failures,       \* remote calls that rejected so far
    concurrent,     \* whether two invocations have been in flight together
    \* ---- live queries (onSnapshot) and the maps that hold their unsubscribe functions ----
    watches,        \* every listener registered so far: its topic key, whether the
                    \* Remote Store still feeds it, whether the store reported an error on it
    unsubscribers,  \* FirebaseService.unsubscribers: key -> listener (0: no entry)
    listeners,      \* RealTimeService.listeners: key -> whether it has an entry, and
                    \* the listeners the entry's function cancels
    cleanupFunctions, \* ChatManager.cleanupFunctions: name -> what the stored function does
    pushes,         \* snapshots pushed so far; a snapshot's version is its number
    handlers,       \* snapshot handlers suspended at an await
    callbackRuns,   \* per pushed version: how often the listener's callback ran for it
    rendered,       \* the rosters handed to ChatManager.renderChats, in order
    surfaced,       \* listeners whose error reached their consumer
    \* ---- ChatManager ----
    currentChatId,
    currentChatUser,
    localMessages,  \* ChatManager.messages
    opens,          \* openChat invocations suspended at an await
    loads,          \* loadChats invocations suspended at an await
    \* ---- users/<uid> of the signed-in user, and the client's writes to it ----
    typingIn,       \* users/<uid>.typingIn (<<>>: null)
    isOnline,       \* users/<uid>.isOnline
    pinnedChats,    \* currentUserData.pinnedChats of this session
    writes,         \* updateDoc calls on users/<uid> not yet settled, in the order issued
    \* ---- RealTimeService: typing ----
    isTyping,       \* RealTimeService.isTyping
    typingTimeouts, \* RealTimeService.typingTimeouts: chat id -> timer (0: no entry)
    timers,         \* every setTimeout of startTyping so far: chat id, due time, pending or not
    seconds,        \* the time, in seconds
    lastStart,      \* the last startTyping call: its chat, its time, whether it found isTyping
    keystrokes,     \* startTyping and stopTyping calls so far
    \* ---- RealTimeService: presence ----
    updateIntervals, \* RealTimeService.updateIntervals.get('status') (0: no entry)
    intervals,      \* every setInterval so far: whether it is still active
    visibilityListeners, \* 'visibilitychange' listeners added to document
    hidden,         \* document.hidden
    mode,           \* the mode of the last setupUserStatusUpdates call
    presenceOps,    \* presence events so far
    \* ---- the principal's pinned chats ----
    pinnedChatsDoc, \* users/<uid>.pinnedChats in the Remote Store
    tabPinnedChats, \* currentUserData.pinnedChats of the principal's other session
    pinCalls,       \* the pinChat calls so far, in the order they started
    \* ---- one conversation's messages: edit, delete, react and send ----
    messageDocs,    \* chats/<id>/messages/<mid>: message id -> doc, or NoDoc
    msgCalls,       \* the editMessage, deleteMessage, addReaction and
                    \* removeReaction calls so far, in the order they started
    sends,          \* the ChatManager.sendMessage calls so far, in the order they started
    \* ---- user documents and the username mapping ----
    userDocs,       \* users/<uid>: uid -> doc, or NoDoc
    usernames,      \* usernames/<username>: username -> doc, or NoDoc
    nameCalls,      \* the createUserDocument and updateUserDocument calls so far
    \* ---- utils.generateChatId as a function of its arguments ----
    pairs,          \* the pairs of user ids chat ids are asked for
    generated,      \* the calls made: arguments and the id returned
    \* ---- ChatXApp ----
    initialized     \* how far initializeManagers has come

storeVars == <<chatRequests, chats, messages, blockedUsers, clock>>
callVars == <<calls, returned, started, failures, concurrent>>
watchVars == <<watches, unsubscribers, listeners, cleanupFunctions>>
feedVars == <<pushes, handlers, callbackRuns, rendered, surfaced>>
chatVars == <<currentChatId, currentChatUser, localMessages, opens>>
userVars == <<typingIn, isOnline, pinnedChats, writes>>
typingVars == <<isTyping, typingTimeouts, timers, seconds, lastStart, keystrokes>>
presenceVars == <<updateIntervals, intervals, visibilityListeners, hidden, mode, presenceOps>>
pinVars == <<pinnedChatsDoc, tabPinnedChats, pinCalls>>
msgVars == <<messageDocs, msgCalls>>
sendVars == <<sends>>
nameVars == <<userDocs, usernames, nameCalls>>
idVars == <<pairs, generated>>
bootVars == <<initialized>>
moreVars == <<pinVars, msgVars, sendVars, nameVars, idVars, bootVars>>
clientVars == <<loads, userVars, typingVars, presenceVars, moreVars>>
sessionVars == <<watchVars, feedVars, chatVars, clientVars>>

Idle ==
    [op |-> "idle", pc |-> "idle", userId |-> <<>>, otherId |-> <<>>,
     requestId |-> 0, response |-> "none", chatId |-> <<>>, text |-> "none",
     includes |-> FALSE, snap |-> {}, result |-> "none", action |-> "none",
     applied |-> {}, failedAt |-> "none", pend0 |-> {}]

\* the doc ids a query on chatRequests with the given filters matches
PendingFromTo(reqs, from, to) ==
    {r \in DOMAIN reqs : reqs[r].fromUserId = from /\ reqs[r].toUserId = to
                          /\ reqs[r].status = "pending"}

AnyFromTo(reqs, from, to) ==
    {r \in DOMAIN reqs : reqs[r].fromUserId = from /\ reqs[r].toUserId = to}

\* members.find(id => id !== userId)
OtherMember(members, userId) ==
    IF members[1] # userId THEN members[1] ELSE members[2]

\* createChat: the document it writes
chatDoc(userId1, userId2, now) ==
    [exists |-> TRUE,
     members |-> <<userId1, userId2>>,
     lastMessage |-> "",
     lastMessageTime |-> 0,
     unreadCount |-> [u \in {userId1, userId2} |-> 0],
     createdAt |-> now]

\* setDoc(chatRef, chatDoc) without merge: the document is replaced
setDoc(coll, id, doc) == [coll EXCEPT ![id] = doc]

\* sendChatRequest: the document it adds
requestData(fromUserId, toUserId) ==
    [fromUserId |-> fromUserId, toUserId |-> toUserId, status |-> "pending"]

\* an update of the chat document that counts the message for its sender
chatAfterMessage_sender(chat, senderId, text, now) ==
    [chat EXCEPT !.lastMessage = text,
                 !.lastMessageTime = now,
                 !.unreadCount[senderId] = @ + 1]

\* sendMessage: the update of the chat document
chatAfterMessage(chat, senderId, text, now) ==
    LET otherUserId == OtherMember(chat.members, senderId) IN
    [chat EXCEPT !.lastMessage = text,
                 !.lastMessageTime = now,
                 !.unreadCount[otherUserId] = @ + 1]

EmptyStore ==
    /\ chatRequests = <<>>
    /\ chats = [id \in ChatIds |-> NoDoc]
    /\ messages = [id \in ChatIds |-> <<>>]
    /\ clock = 1

NoCalls ==
    /\ calls = [c \in Slots |-> Idle]
    /\ returned = Idle
    /\ started = 0
    /\ failures = 0
    /\ concurrent = FALSE

\* a step of invocation c: its record becomes `next`
Goto(c, next) ==
    /\ calls' = [calls EXCEPT ![c] = next]
    /\ returned' = Idle
    /\ UNCHANGED <<started, failures, concurrent, sessionVars>>

Begin(c, call) ==
    /\ calls[c].op = "idle"
    /\ started < MaxOps
    /\ started' = started + 1
    /\ calls' = [calls EXCEPT ![c] = call]
    /\ returned' = Idle
    /\ concurrent' = (concurrent \/ \E d \in Slots : d # c /\ calls[d].op # "idle")
    /\ UNCHANGED <<failures, storeVars, sessionVars>>

(***************************************************************************)
(* FirebaseService.sendChatRequest (and getChatRequest, getChat)           *)
(***************************************************************************)
sendChatRequest(c, fromUserId, toUserId) ==
    Begin(c, [Idle EXCEPT !.op = "sendChatRequest", !.pc = "getChatRequest",
                          !.userId = fromUserId, !.otherId = toUserId])

\* await this.getChatRequest(fromUserId, toUserId): any request, whatever its status
sendChatRequest_getChatRequest(c) ==
    LET k == calls[c] IN
    /\ k.op = "sendChatRequest" /\ k.pc = "getChatRequest"
    /\ IF AnyFromTo(chatRequests, k.userId, k.otherId) # {}
       THEN Goto(c, [k EXCEPT !.pc = "return", !.result = "fail"])
       ELSE Goto(c, [k EXCEPT !.pc = "getChat"])
    /\ UNCHANGED storeVars

\* await this.getChat(chatId)
sendChatRequest_getChat(c) ==
    LET k == calls[c] IN
    /\ k.op = "sendChatRequest" /\ k.pc = "getChat"
    /\ IF chats[generateChatId(k.userId, k.otherId)].exists
       THEN Goto(c, [k EXCEPT !.pc = "return", !.result = "fail"])
       ELSE Goto(c, [k EXCEPT !.pc = "addDoc"])
    /\ UNCHANGED storeVars

\* await addDoc(requestsRef, requestData)
sendChatRequest_addDoc(c) ==
    LET k == calls[c] IN
    /\ k.op = "sendChatRequest" /\ k.pc = "addDoc"
    /\ chatRequests' = Append(chatRequests, requestData(k.userId, k.otherId))
    /\ Goto(c, [k EXCEPT !.pc = "return", !.result = "success"])
    /\ UNCHANGED <<chats, messages, blockedUsers, clock>>

(***************************************************************************)
(* FirebaseService.createChat, on its own or called by                     *)
(* respondToChatRequest                                                    *)
(***************************************************************************)
createChat(c, userId1, userId2) ==
    Begin(c, [Idle EXCEPT !.op = "createChat", !.pc = "createChat_setDoc",
                          !.userId = userId1, !.otherId = userId2])

\* await setDoc(chatRef, chatDoc); createdAt is the server's time
createChat_setDoc(c) ==
    LET k == calls[c]
        \* respondToChatRequest passes (requestData.fromUserId, requestData.toUserId)
        userId1 == IF k.op = "respondToChatRequest" THEN k.otherId ELSE k.userId
        userId2 == IF k.op = "respondToChatRequest" THEN k.userId ELSE k.otherId
    IN
    /\ k.pc = "createChat_setDoc"
    /\ chats' = setDoc(chats, generateChatId(userId1, userId2),
                       chatDoc(userId1, userId2, clock))
    /\ clock' = clock + 1
    /\ Goto(c, [k EXCEPT !.pc = "return", !.result = "success"])
    /\ UNCHANGED <<chatRequests, messages, blockedUsers>>

(***************************************************************************)
(* FirebaseService.sendMessage                                             *)
(***************************************************************************)
sendMessage(c, chatId, senderId, text) ==
    Begin(c, [Idle EXCEPT !.op = "sendMessage", !.pc = "sendMessage_addDoc",
                          !.chatId = chatId, !.userId = senderId, !.text = text])

\* await addDoc(messagesRef, messageData)
sendMessage_addDoc(c) ==
    LET k == calls[c] IN
    /\ k.pc = "sendMessage_addDoc"
    /\ messages' = [messages EXCEPT ![k.chatId] =
           Append(@, [senderId |-> k.userId, text |-> k.text,
                      timestamp |-> clock, read |-> FALSE])]
    /\ clock' = clock + 1
    /\ Goto(c, [k EXCEPT !.pc = "sendMessage_getChat"])
    /\ UNCHANGED <<chatRequests, chats, blockedUsers>>

\* await this.getChat(chatId)
sendMessage_getChat(c) ==
    LET k == calls[c] IN
    /\ k.pc = "sendMessage_getChat"
    /\ IF chats[k.chatId].exists
       THEN Goto(c, [k EXCEPT !.pc = "sendMessage_updateDoc",
                              !.otherId = OtherMember(chats[k.chatId].members, k.userId)])
       ELSE Goto(c, [k EXCEPT !.pc = "return", !.result = "success"])
    /\ UNCHANGED storeVars

\* await updateDoc(chatRef, {lastMessage, lastMessageTime, unreadCount.<other>: increment(1)});
\* updateDoc of a document that is gone rejects
sendMessage_updateDoc(c) ==
    LET k == calls[c] IN
    /\ k.pc = "sendMessage_updateDoc"
    /\ IF chats[k.chatId].exists
       THEN /\ chats' = [chats EXCEPT ![k.chatId] =
                            chatAfterMessage(@, k.userId, k.text, clock)]
            /\ clock' = clock + 1
            /\ Goto(c, [k EXCEPT !.pc = "return", !.result = "success"])
       ELSE /\ UNCHANGED <<chats, clock>>
            /\ Goto(c, [k EXCEPT !.pc = "return", !.result = "fail"])
    /\ UNCHANGED <<chatRequests, messages, blockedUsers>>

(***************************************************************************)
(* FirebaseService.respondToChatRequest                                    *)
(***************************************************************************)
respondToChatRequest(c, requestId, response, userId) ==
    Begin(c, [Idle EXCEPT !.op = "respondToChatRequest", !.pc = "respond_getDoc",
                          !.requestId = requestId, !.response = response,
                          !.userId = userId])

\* a getDoc after which anyone may respond
respond_getDoc_unchecked(c) ==
    LET k == calls[c] IN
    /\ k.pc = "respond_getDoc"
    /\ IF k.requestId \notin DOMAIN chatRequests
       THEN Goto(c, [k EXCEPT !.pc = "return", !.result = "fail"])
       ELSE Goto(c, [k EXCEPT !.pc = "respond_updateDoc",
                              !.otherId = chatRequests[k.requestId].fromUserId])
    /\ UNCHANGED storeVars

\* await getDoc(requestRef), then the checks on the document read
respond_getDoc(c) ==
    LET k == calls[c] IN
    /\ k.pc = "respond_getDoc"
    /\ IF k.requestId \notin DOMAIN chatRequests
       THEN Goto(c, [k EXCEPT !.pc = "return", !.result = "fail"])
       ELSE IF chatRequests[k.requestId].toUserId # k.userId
       THEN Goto(c, [k EXCEPT !.pc = "return", !.result = "fail"])
       ELSE Goto(c, [k EXCEPT !.pc = "respond_updateDoc",
                              !.otherId = chatRequests[k.requestId].fromUserId])
    /\ UNCHANGED storeVars

\* await updateDoc(requestRef, {status: response, ...})
respond_updateDoc(c) ==
    LET k == calls[c] IN
    /\ k.pc = "respond_updateDoc"
    /\ chatRequests' = [chatRequests EXCEPT ![k.requestId].status = k.response]
    /\ IF k.response = "accepted"
       THEN Goto(c, [k EXCEPT !.pc = "createChat_setDoc"])
       ELSE Goto(c, [k EXCEPT !.pc = "return", !.result = "success"])
    /\ UNCHANGED <<chats, messages, blockedUsers, clock>>

(***************************************************************************)
(* FirebaseService.toggleBlockUser, on its own or called by                *)
(* blockUserFromRequest                                                    *)
(***************************************************************************)
toggleBlockUser(c, userId, targetUserId) ==
    /\ Begin(c, [Idle EXCEPT !.op = "toggleBlockUser", !.pc = "toggle_getDoc",
                             !.userId = userId, !.otherId = targetUserId,
                             !.pend0 = PendingFromTo(chatRequests, userId, targetUserId)
                                       \cup PendingFromTo(chatRequests, targetUserId, userId)])

\* what toggleBlockUser's caller gets: blockUserFromRequest drops the result
\* and goes on to `return { success: true }`
ToggleResult(k, result) ==
    IF k.op = "blockUserFromRequest" THEN "success" ELSE result

\* await getDoc(userRef); blockedUsers.includes(targetUserId) picks the branch
toggle_getDoc(c) ==
    LET k == calls[c] IN
    /\ k.pc = "toggle_getDoc"
    /\ IF k.otherId \in blockedUsers[k.userId]
       THEN Goto(c, [k EXCEPT !.pc = "toggle_arrayRemove", !.includes = TRUE])
       ELSE Goto(c, [k EXCEPT !.pc = "toggle_arrayUnion", !.includes = FALSE])
    /\ UNCHANGED storeVars

\* await updateDoc(userRef, {blockedUsers: arrayRemove(targetUserId)})
toggle_arrayRemove(c) ==
    LET k == calls[c] IN
    /\ k.pc = "toggle_arrayRemove"
    /\ blockedUsers' = [blockedUsers EXCEPT ![k.userId] = @ \ {k.otherId}]
    /\ Goto(c, [k EXCEPT !.pc = "return", !.action = "unblocked",
                         !.applied = @ \cup {"unblock"},
                         !.result = ToggleResult(k, "success")])
    /\ UNCHANGED <<chatRequests, chats, messages, clock>>

\* await updateDoc(userRef, {blockedUsers: arrayUnion(targetUserId)})
toggle_arrayUnion(c) ==
    LET k == calls[c] IN
    /\ k.pc = "toggle_arrayUnion"
    /\ blockedUsers' = [blockedUsers EXCEPT ![k.userId] = @ \cup {k.otherId}]
    /\ Goto(c, [k EXCEPT !.pc = "toggle_getChat", !.action = "blocked",
                         !.applied = @ \cup {"flag"}])
    /\ UNCHANGED <<chatRequests, chats, messages, clock>>

\* await this.getChat(chatId)
toggle_getChat(c) ==
    LET k == calls[c] IN
    /\ k.pc = "toggle_getChat"
    /\ IF chats[generateChatId(k.userId, k.otherId)].exists
       THEN Goto(c, [k EXCEPT !.pc = "toggle_deleteDoc"])
       ELSE Goto(c, [k EXCEPT !.pc = "toggle_getDocs"])
    /\ UNCHANGED storeVars

\* await deleteDoc(doc(db, "chats", chatId))
toggle_deleteDoc(c) ==
    LET k == calls[c] IN
    /\ k.pc = "toggle_deleteDoc"
    /\ chats' = [chats EXCEPT ![generateChatId(k.userId, k.otherId)] = NoDoc]
    /\ Goto(c, [k EXCEPT !.pc = "toggle_getDocs", !.applied = @ \cup {"chat"}])
    /\ UNCHANGED <<chatRequests, messages, blockedUsers, clock>>

\* await getDocs(requestsQuery): fromUserId == targetUserId, toUserId == userId,
\* status == pending
toggle_getDocs(c) ==
    LET k == calls[c]
        found == PendingFromTo(chatRequests, k.otherId, k.userId)
    IN
    /\ k.pc = "toggle_getDocs"
    /\ IF found # {}
       THEN Goto(c, [k EXCEPT !.pc = "toggle_commit", !.snap = found])
       ELSE Goto(c, [k EXCEPT !.pc = "return", !.result = ToggleResult(k, "success")])
    /\ UNCHANGED storeVars

\* await batch.commit(): every document of the snapshot gets status blocked
toggle_commit(c) ==
    LET k == calls[c] IN
    /\ k.pc = "toggle_commit"
    /\ chatRequests' = [r \in DOMAIN chatRequests |->
                           IF r \in k.snap
                           THEN [chatRequests[r] EXCEPT !.status = "blocked"]
                           ELSE chatRequests[r]]
    /\ Goto(c, [k EXCEPT !.pc = "return", !.applied = @ \cup {"requests"},
                         !.result = ToggleResult(k, "success")])
    /\ UNCHANGED <<chats, messages, blockedUsers, clock>>

(***************************************************************************)
(* FirebaseService.blockUserFromRequest                                    *)
(***************************************************************************)
blockUserFromRequest(c, requestId, userId) ==
    Begin(c, [Idle EXCEPT !.op = "blockUserFromRequest", !.pc = "blockFrom_getDoc",
                          !.requestId = requestId, !.userId = userId])

\* await getDoc(requestRef), then the checks on the document read
blockFrom_getDoc(c) ==
    LET k == calls[c] IN
    /\ k.pc = "blockFrom_getDoc"
    /\ IF k.requestId \notin DOMAIN chatRequests
       THEN Goto(c, [k EXCEPT !.pc = "return", !.result = "fail"])
       ELSE IF chatRequests[k.requestId].toUserId # k.userId
       THEN Goto(c, [k EXCEPT !.pc = "return", !.result = "fail"])
       ELSE Goto(c, [k EXCEPT !.pc = "blockFrom_updateDoc",
                              !.otherId = chatRequests[k.requestId].fromUserId])
    /\ UNCHANGED storeVars

\* await updateDoc(requestRef, {status: 'blocked'}), then
\* this.toggleBlockUser(userId, requestData.fromUserId)
blockFrom_updateDoc(c) ==
    LET k == calls[c] IN
    /\ k.pc = "blockFrom_updateDoc"
    /\ chatRequests' = [chatRequests EXCEPT ![k.requestId].status = "blocked"]
    /\ Goto(c, [k EXCEPT !.pc = "toggle_getDoc", !.applied = @ \cup {"status"}])
    /\ UNCHANGED <<chats, messages, blockedUsers, clock>>

(***************************************************************************)
(* A remote call rejects.  The catch that takes the rejection decides what *)
(* the invocation does next: getChatRequest and getChat catch their own    *)
(* and answer { success: false }, which their callers read as "not there"; *)
(* createChat and toggleBlockUser catch their own too, and                 *)
(* respondToChatRequest and blockUserFromRequest ignore what they answer.  *)
(***************************************************************************)
AfterReject(k) ==
    LET k1 == [k EXCEPT !.failedAt = k.pc] IN
    CASE k.pc = "getChatRequest" -> [k1 EXCEPT !.pc = "getChat"]
      [] k.pc = "getChat" -> [k1 EXCEPT !.pc = "addDoc"]
      [] k.pc = "isUserBlocked" -> [k1 EXCEPT !.pc = "getChatRequest"]
      [] k.pc = "sendMessage_getChat" -> [k1 EXCEPT !.pc = "return", !.result = "success"]
      [] k.pc = "toggle_getChat" -> [k1 EXCEPT !.pc = "toggle_getDocs"]
      [] k.pc = "createChat_setDoc" ->
            [k1 EXCEPT !.pc = "return",
                       !.result = IF k.op = "respondToChatRequest"
                                  THEN "success" ELSE "fail"]
      [] k.pc \in {"toggle_getDoc", "toggle_arrayRemove", "toggle_arrayUnion",
                   "toggle_deleteDoc", "toggle_getDocs", "toggle_commit"} ->
            [k1 EXCEPT !.pc = "return", !.result = ToggleResult(k, "fail")]
      [] OTHER -> [k1 EXCEPT !.pc = "return", !.result = "fail"]

Reject(c) ==
    /\ calls[c].op # "idle"
    /\ calls[c].pc # "return"
    /\ failures < MaxFailures
    /\ failures' = failures + 1
    /\ calls' = [calls EXCEPT ![c] = AfterReject(calls[c])]
    /\ returned' = Idle
    /\ UNCHANGED <<started, concurrent, storeVars, sessionVars>>

\* the invocation's promise resolves: its caller has the result
Return(c) ==
    /\ calls[c].pc = "return"
    /\ returned' = calls[c]
    /\ calls' = [calls EXCEPT ![c] = Idle]
    /\ UNCHANGED <<started, failures, concurrent, storeVars, sessionVars>>

StoreNext ==
    \E c \in Slots :
        \/ \E u, v \in Actors : u # v /\ sendChatRequest(c, u, v)
        \/ sendChatRequest_getChatRequest(c)
        \/ sendChatRequest_getChat(c)
        \/ sendChatRequest_addDoc(c)
        \/ \E u, v \in Actors : u # v /\ createChat(c, u, v)
        \/ createChat_setDoc(c)
        \/ \E u, v \in Actors, t \in Texts :
               u # v /\ sendMessage(c, generateChatId(u, v), u, t)
        \/ sendMessage_addDoc(c)
        \/ sendMessage_getChat(c)
        \/ sendMessage_updateDoc(c)
        \/ \E r \in DOMAIN chatRequests, rsp \in Responses, u \in Actors :
               respondToChatRequest(c, r, rsp, u)
        \/ respond_getDoc(c)
        \/ respond_updateDoc(c)
        \/ \E u, v \in Actors : u # v /\ toggleBlockUser(c, u, v)
        \/ toggle_getDoc(c)
        \/ toggle_arrayRemove(c)
        \/ toggle_arrayUnion(c)
        \/ toggle_getChat(c)
        \/ toggle_deleteDoc(c)
        \/ toggle_getDocs(c)
        \/ toggle_commit(c)
        \/ \E r \in DOMAIN chatRequests, u \in Actors : blockUserFromRequest(c, r, u)
        \/ blockFrom_getDoc(c)
        \/ blockFrom_updateDoc(c)
        \/ Reject(c)
        \/ Return(c)

vars == <<storeVars, callVars, watchVars, feedVars, chatVars, clientVars>>

(***************************************************************************)
(* The session of the signed-in user: topic keys and the initial state.    *)
(***************************************************************************)
\* invocations of onSnapshot in one behaviour
MaxWatches == 4
\* changes of the Remote Store by other clients in one behaviour
MaxPushes == 1

\* FirebaseService has the fields unsubscribers, currentUser and
\* currentUserData; `db` is a constant of its module.  RealTimeService reads
\* firebaseService.db, which is undefined: firebaseService.db.collection(...)
\* and firebaseService.db.doc(...) throw a TypeError.
ServiceHasDb == FALSE

OtherUsers == UserIds \ {Viewer}
ViewerChats == {generateChatId(Viewer, u) : u \in OtherUsers}

\* `requests_${userId}_${type}`, `chats_${userId}`, `messages_${chatId}`,
\* `chat_${chatId}`, `typing_${chatId}_${otherUserId}`, `online_${userId}`
IncomingKey == <<"requests_incoming", Viewer>>
OutgoingKey == <<"requests_outgoing", Viewer>>
ChatsKey == <<"chats", Viewer>>
MessagesKey(chatId) == <<"messages", chatId>>
ChatKey(chatId) == <<"chat", chatId>>
TypingKey(chatId, otherUserId) == <<"typing", chatId \o <<"_">> \o otherUserId>>
OnlineKey(userId) == <<"online", userId>>

FirebaseKeys ==
    {IncomingKey, OutgoingKey, ChatsKey} \cup {MessagesKey(id) : id \in ViewerChats \cup {<<>>}}
RealTimeKeys ==
    {IncomingKey, OutgoingKey, ChatsKey}
    \cup {ChatKey(id) : id \in ViewerChats}
    \cup {TypingKey(id, u) : id \in ViewerChats, u \in OtherUsers}
    \cup {OnlineKey(u) : u \in OtherUsers}
CleanupNames == {"chats", "chat", "typing", "onlineStatus"}

NoEntry == [has |-> FALSE, cancels |-> {}]
NoCleanup == [has |-> FALSE, cancels |-> {}, deletes |-> {}]

\* where("toUserId", "==", userId), where("status", "==", "pending")
PendingTo(reqs, userId) ==
    {r \in DOMAIN reqs : reqs[r].toUserId = userId /\ reqs[r].status = "pending"}
\* where("fromUserId", "==", userId)
AnyFrom(reqs, userId) == {r \in DOMAIN reqs : reqs[r].fromUserId = userId}

\* no startTyping call yet
NoStart == [n |-> 0, chatId |-> <<>>, time |-> 0, wasTyping |-> FALSE]

\* the messages of the conversation of a and b that edit, delete and react
\* are called on, and who sent them
MessageIds == {1}
Author(m) == Viewer

\* sendMessage: messageData, the fields edit, delete and react touch
messageData(senderId, text) ==
    [exists |-> TRUE, senderId |-> senderId, text |-> text, edited |-> FALSE,
     deletedFor |-> {}, reactions |-> <<>>]

\* no conversation is open
NoChatOpen ==
    /\ watches = <<>>
    /\ unsubscribers = [k \in FirebaseKeys |-> 0]
    /\ currentChatId = <<>>
    /\ currentChatUser = <<>>
    /\ localMessages = <<>>

\* the usernames the model signs up with and renames to
Usernames == {"ann", "bob"}

\* nobody has signed up
NoUsers ==
    /\ userDocs = [u \in Actors |-> NoDoc]
    /\ usernames = [n \in Usernames |-> NoDoc]
    /\ nameCalls = <<>>

\* the session but for the open conversation, the users and the chat ids
\* asked for
SessionCore ==
    /\ listeners = [k \in RealTimeKeys |-> NoEntry]
    /\ cleanupFunctions = [n \in CleanupNames |-> NoCleanup]
    /\ pushes = 0
    /\ handlers = {}
    /\ callbackRuns = <<>>
    /\ rendered = <<>>
    /\ surfaced = {}
    /\ opens = {}
    /\ loads = {}
    /\ typingIn = <<>>
    /\ isOnline = FALSE
    /\ writes = <<>>
    /\ isTyping = FALSE
    /\ typingTimeouts = [id \in ViewerChats |-> 0]
    /\ timers = <<>>
    /\ seconds = 0
    /\ lastStart = NoStart
    /\ keystrokes = 0
    /\ updateIntervals = 0
    /\ intervals = <<>>
    /\ visibilityListeners = 0
    /\ hidden = FALSE
    /\ mode = "none"
    /\ presenceOps = 0
    /\ pinnedChatsDoc = pinnedChats
    /\ tabPinnedChats = pinnedChats
    /\ pinCalls = <<>>
    /\ messageDocs = [m \in MessageIds |-> messageData(Author(m), "hello")]
    /\ msgCalls = <<>>
    /\ sends = <<>>

\* no chat id asked for
SessionRest ==
    /\ SessionCore
    /\ NoUsers
    /\ pairs = <<>>
    /\ generated = {}
    /\ initialized = "no"

SessionInit ==
    /\ NoChatOpen
    /\ SessionRest

\* nothing stored, nobody blocked, no invocation in progress
StoreInit ==
    /\ EmptyStore
    /\ blockedUsers = [u \in UserIds |-> {}]
    /\ NoCalls
    /\ pinnedChats = {}
    /\ SessionInit

SpecStore == StoreInit /\ [][StoreNext]_vars

(***************************************************************************)
(* Live queries.  onSnapshot registers a listener with the Remote Store    *)
(* and gives back its unsubscribe function; FirebaseService keeps that     *)
(* function in `unsubscribers` under the topic key, RealTimeService keeps  *)
(* it in `listeners`, ChatManager keeps it in `cleanupFunctions`.          *)
(***************************************************************************)
\* onSnapshot(query, handler): one more listener, fed from now on.  No
\* setup*Listener passes an error callback.
onSnapshot(ws, key) == Append(ws, [key |-> key, live |-> TRUE, errored |-> FALSE])

\* calling the unsubscribe functions of the listeners in S
Unsubscribe(ws, S) ==
    [w \in DOMAIN ws |-> IF w \in S THEN [ws[w] EXCEPT !.live = FALSE] ELSE ws[w]]

LiveOn(key) == {w \in DOMAIN watches : watches[w].key = key /\ watches[w].live}

\* a snapshot not yet handed to a listener is dropped when the listener ends
DropUndelivered(hs, S) == {h \in hs : ~(h.watch \in S /\ h.phase = "deliver")}

\* the snapshot the Remote Store sends listener w: version v of what w's
\* query matches
Snapshot(w, key, v, cs, reqs) ==
    [watch |-> w, version |-> v, phase |-> "deliver", pushed |-> TRUE,
     snap |-> [id \in ViewerChats |-> cs[id]],
     todo |-> IF key = ChatsKey
              THEN {id \in ViewerChats : cs[id].exists} ELSE {},
     rtodo |-> IF key = IncomingKey
               THEN PendingTo(reqs, Viewer)
               ELSE IF key = OutgoingKey THEN AnyFrom(reqs, Viewer)
               ELSE {},
     out |-> {}, btodo |-> {}, bids |-> {}]

\* a listener gets the current result of its query when it is registered
FirstSnapshot(w, key) ==
    [Snapshot(w, key, pushes, chats, chatRequests) EXCEPT !.pushed = FALSE]

\* FirebaseService.setupMessagesListener: the query is built by
\* collection(db, "chats", chatId, "messages")
setupMessagesListener(ws, chatId) == onSnapshot(ws, MessagesKey(chatId))

\* FirebaseService.setupChatRequestsListener, as RealTimeService.setupRequestsUpdates
\* calls it and stores what it returns
setupChatRequestsListener(ws, key) == onSnapshot(ws, key)

\* UIManager.setupRequestsUpdates: RealTimeService.setupRequestsUpdates for
\* 'incoming' and for 'outgoing'.  Its third argument is a function, so
\* callbacks.onRequestsUpdate is undefined and the listener's callback does
\* nothing besides running.
UIManager_setupRequestsUpdates ==
    LET w1 == Len(watches) + 1
        w2 == Len(watches) + 2
        ws1 == setupChatRequestsListener(watches, IncomingKey)
        ws2 == setupChatRequestsListener(ws1, OutgoingKey)
    IN
    /\ Len(watches) + 2 <= MaxWatches
    /\ watches' = ws2
    /\ unsubscribers' = [unsubscribers EXCEPT ![IncomingKey] = w1, ![OutgoingKey] = w2]
    /\ listeners' = [listeners EXCEPT ![IncomingKey] = [has |-> TRUE, cancels |-> {w1}],
                                      ![OutgoingKey] = [has |-> TRUE, cancels |-> {w2}]]
    /\ handlers' = handlers \cup {FirstSnapshot(w1, IncomingKey),
                                  FirstSnapshot(w2, OutgoingKey)}
    /\ UNCHANGED <<cleanupFunctions, pushes, callbackRuns, rendered, surfaced>>
    /\ UNCHANGED <<storeVars, callVars, clientVars, chatVars>>

\* ChatManager.setupChatsUpdates: RealTimeService.setupChatsListUpdates, which
\* calls FirebaseService.setupChatsListener; ChatManager.initialize calls it,
\* once in a session
ChatManager_setupChatsUpdates ==
    LET w == Len(watches) + 1 IN
    /\ Len(watches) + 1 <= MaxWatches
    /\ \A x \in DOMAIN watches : watches[x].key # ChatsKey
    /\ \E l \in loads : l.pc = "done"
    /\ watches' = onSnapshot(watches, ChatsKey)
    /\ unsubscribers' = [unsubscribers EXCEPT ![ChatsKey] = w]
    /\ listeners' = [listeners EXCEPT ![ChatsKey] = [has |-> TRUE, cancels |-> {w}]]
    /\ cleanupFunctions' = [cleanupFunctions EXCEPT
           !["chats"] = [has |-> TRUE, cancels |-> {w}, deletes |-> {}]]
    /\ handlers' = handlers \cup {FirstSnapshot(w, ChatsKey)}
    /\ UNCHANGED <<pushes, callbackRuns, rendered, surfaced>>
    /\ UNCHANGED <<storeVars, callVars, clientVars, chatVars>>

\* FirebaseService.cleanupListeners: the functions the map holds are called,
\* the map is cleared
cleanupListeners ==
    LET S == {unsubscribers[k] : k \in DOMAIN unsubscribers} \ {0} IN
    /\ S # {}
    /\ watches' = Unsubscribe(watches, S)
    /\ unsubscribers' = [k \in DOMAIN unsubscribers |-> 0]
    /\ handlers' = DropUndelivered(handlers, S)
    /\ UNCHANGED <<listeners, cleanupFunctions, pushes, callbackRuns, rendered, surfaced>>
    /\ UNCHANGED <<storeVars, callVars, clientVars, chatVars>>

(***************************************************************************)
(* The Remote Store's side of a live query.                                *)
(***************************************************************************)
\* every listener that is fed and whose query the change touches is sent the
\* new result
Push(keys, cs, reqs) ==
    /\ pushes < MaxPushes
    /\ pushes' = pushes + 1
    /\ callbackRuns' = Append(callbackRuns, 0)
    /\ handlers' = handlers \cup
           {Snapshot(w, watches[w].key, pushes + 1, cs, reqs) :
                w \in {x \in DOMAIN watches : watches[x].live /\ watches[x].key \in keys}}

\* another client's write to a chat of the viewer: the chat is created,
\* gets a message, or is deleted
Remote_ChatChanges(otherUserId) ==
    LET id == generateChatId(Viewer, otherUserId) IN
    /\ \/ /\ ~chats[id].exists
          /\ chats' = setDoc(chats, id, chatDoc(otherUserId, Viewer, clock))
       \/ /\ chats[id].exists
          /\ chats' = [chats EXCEPT ![id] = chatAfterMessage(@, otherUserId, "hello", clock)]
       \/ /\ chats[id].exists
          /\ chats' = [chats EXCEPT ![id] = NoDoc]
    /\ clock' = clock + 1
    /\ Push({ChatsKey}, chats', chatRequests)
    /\ UNCHANGED <<chatRequests, messages, blockedUsers, rendered, surfaced>>
    /\ UNCHANGED <<callVars, clientVars, watchVars, chatVars>>

\* another client's sendChatRequest to the viewer, or the viewer's own from
\* another invocation
Remote_RequestAdded(fromUserId, toUserId) ==
    /\ chatRequests' = Append(chatRequests, requestData(fromUserId, toUserId))
    /\ Push(IF toUserId = Viewer THEN {IncomingKey} ELSE {OutgoingKey},
            chats, chatRequests')
    /\ UNCHANGED <<chats, messages, blockedUsers, clock, rendered, surfaced>>
    /\ UNCHANGED <<callVars, clientVars, watchVars, chatVars>>

\* the Remote Store reports an error on a listener (permission revoked, ...):
\* the listener gets no further snapshot.  The code passed no error callback
\* and keeps no other trace of the listener's end.
Remote_WatchError(w) ==
    /\ watches[w].live
    /\ watches' = [watches EXCEPT ![w].live = FALSE, ![w].errored = TRUE]
    /\ handlers' = DropUndelivered(handlers, {w})
    /\ UNCHANGED <<unsubscribers, listeners, cleanupFunctions,
                   pushes, callbackRuns, rendered, surfaced>>
    /\ UNCHANGED <<storeVars, callVars, clientVars, chatVars>>

(***************************************************************************)
(* The snapshot handlers of setupChatsListener / setupChatRequestsListener *)
(* and the callback RealTimeService.setupChatsListUpdates gives the first. *)
(***************************************************************************)
\* the callback of setupChatRequestsListener ran for h's snapshot
RequestsCallback(h) ==
    /\ callbackRuns' = IF h.pushed
                       THEN [callbackRuns EXCEPT ![h.version] = @ + 1]
                       ELSE callbackRuns
    /\ handlers' = handlers \ {h}

\* snapshot.docs: the documents of a query result, in the order of their ids
RECURSIVE docs(_)
docs(S) ==
    IF S = {} THEN <<>>
    ELSE LET d == CHOOSE x \in S : \A y \in S : x = y \/ StrLess(x, y)
         IN <<d>> \o docs(S \ {d})

\* a.lastMessageTime?.toDate?.() || a.createdAt?.toDate?.()
timeOf(chat) ==
    IF chat.lastMessageTime # 0 THEN chat.lastMessageTime ELSE chat.createdAt

\* the comparator of getUserChats: by last message time, newest first
userChatsCompare(a, b, snap) == timeOf(snap[b]) - timeOf(snap[a])

\* the comparator of setupChatsListUpdates: pinned first, then unread, then
\* by last message time, newest first
chatsListCompare(a, b, snap, pinned) ==
    LET aUnread == snap[a].unreadCount[Viewer]
        bUnread == snap[b].unreadCount[Viewer]
    IN
    IF a \in pinned /\ b \notin pinned THEN -1
    ELSE IF a \notin pinned /\ b \in pinned THEN 1
    ELSE IF aUnread > 0 /\ bUnread = 0 THEN -1
    ELSE IF aUnread = 0 /\ bUnread > 0 THEN 1
    ELSE timeOf(snap[b]) - timeOf(snap[a])

\* a sort that is not stable: an element goes before the ones it compares
\* equal to
RECURSIVE insert_unstable(_, _, _)
insert_unstable(x, s, Before) ==
    IF s = <<>> THEN <<x>>
    ELSE IF <<Head(s), x>> \notin Before THEN <<x>> \o s
    ELSE <<Head(s)>> \o insert_unstable(x, Tail(s), Before)

\* Array.prototype.sort, which is stable: Before holds the pairs <<a, b>>
\* the comparator gives a negative number for
RECURSIVE insert(_, _, _)
insert(x, s, Before) ==
    IF s = <<>> THEN <<x>>
    ELSE IF <<x, Head(s)>> \in Before THEN <<x>> \o s
    ELSE <<Head(s)>> \o insert(x, Tail(s), Before)

RECURSIVE sort(_, _)
sort(s, Before) ==
    IF s = <<>> THEN <<>>
    ELSE insert(s[Len(s)], sort(SubSeq(s, 1, Len(s) - 1), Before), Before)

\* filteredChats of setupChatsListUpdates: the chats whose other member is
\* not among the blocked users read, sorted
filteredChats(h, blockedUserIds) ==
    LET notBlocked(id) == OtherMember(h.snap[id].members, Viewer) \notin blockedUserIds
        Before == {p \in h.out \X h.out :
                      chatsListCompare(p[1], p[2], h.snap, pinnedChats) < 0}
    IN sort(SelectSeq(docs(h.out), notBlocked), Before)

\* renderChats that appends the items in the order it is given them
renderChats_unsplit(chats_, pinned) == chats_

\* ChatManager.renderChats: the items appended to the chats list, the pinned
\* chats of the list first, then the others
renderChats(chats_, pinned) ==
    LET isPinned(id) == id \in pinned
        isRegular(id) == id \notin pinned
    IN SelectSeq(chats_, isPinned) \o SelectSeq(chats_, isRegular)

\* what one call of renderChats put on the page, with the documents it was
\* computed from and the viewer's pinned and blocked sets at that moment
Roster(w, v, chats_, snap) ==
    [watch |-> w, version |-> v, chats |-> renderChats(chats_, pinnedChats),
     snap |-> snap, pinned |-> pinnedChats, blocked |-> blockedUsers[Viewer]]

\* callbacks.onChatsUpdate(filteredChats): ChatManager.renderChats
onChatsUpdate(h, blockedUserIds) ==
    /\ rendered' = Append(rendered, Roster(h.watch, h.version,
                                           filteredChats(h, blockedUserIds), h.snap))
    /\ handlers' = handlers \ {h}

\* a listener is handed its snapshots in their order
NextToDeliver(h) ==
    /\ h.phase = "deliver"
    /\ watches[h.watch].live
    /\ \A g \in handlers :
           (g.watch = h.watch /\ g.phase = "deliver") => g.version >= h.version

\* setupChatRequestsListener's handler starts on a snapshot
requests_onSnapshot(h) ==
    /\ watches[h.watch].key \in {IncomingKey, OutgoingKey}
    /\ NextToDeliver(h)
    /\ IF h.rtodo = {}
       THEN RequestsCallback(h)
       ELSE /\ handlers' = (handlers \ {h}) \cup {[h EXCEPT !.phase = "getUserDocument"]}
            /\ UNCHANGED callbackRuns
    /\ UNCHANGED <<pushes, rendered, surfaced>>
    /\ UNCHANGED <<storeVars, callVars, clientVars, watchVars, chatVars>>

\* its await this.getUserDocument(userIdToFetch) for the next request of the
\* snapshot; after the last one the callback is called
requests_getUserDocument(h) ==
    /\ watches[h.watch].key \in {IncomingKey, OutgoingKey}
    /\ h.phase = "getUserDocument"
    /\ LET d == CHOOSE x \in h.rtodo : \A y \in h.rtodo : x <= y
           h1 == [h EXCEPT !.rtodo = @ \ {d}]
       IN
       IF h1.rtodo = {}
       THEN RequestsCallback(h)
       ELSE /\ handlers' = (handlers \ {h}) \cup {h1}
            /\ UNCHANGED callbackRuns
    /\ UNCHANGED <<pushes, rendered, surfaced>>
    /\ UNCHANGED <<storeVars, callVars, clientVars, watchVars, chatVars>>

\* setupChatsListener's handler starts on a snapshot; with no document in it
\* the callback is called at once and awaits getBlockedUsers
chats_onSnapshot(h) ==
    /\ watches[h.watch].key = ChatsKey
    /\ NextToDeliver(h)
    /\ handlers' = (handlers \ {h}) \cup
           {[h EXCEPT !.phase = IF h.todo = {} THEN "getBlockedUsers"
                                ELSE "getUserDocument"]}
    /\ UNCHANGED <<pushes, callbackRuns, rendered, surfaced>>
    /\ UNCHANGED <<storeVars, callVars, clientVars, watchVars, chatVars>>

\* its await this.getUserDocument(otherUserId) for the next chat of the
\* snapshot; after the last one the callback is called
chats_getUserDocument(h) ==
    /\ watches[h.watch].key = ChatsKey
    /\ h.phase = "getUserDocument"
    /\ LET d == CHOOSE x \in h.todo : \A y \in h.todo : x = y \/ StrLess(x, y)
           h1 == [h EXCEPT !.todo = @ \ {d}, !.out = @ \cup {d}]
       IN
       handlers' = (handlers \ {h}) \cup
           {IF h1.todo = {} THEN [h1 EXCEPT !.phase = "getBlockedUsers"] ELSE h1}
    /\ UNCHANGED <<pushes, callbackRuns, rendered, surfaced>>
    /\ UNCHANGED <<storeVars, callVars, clientVars, watchVars, chatVars>>

\* the callback's await firebaseService.getBlockedUsers(userId): its
\* getUserDocument(userId)
chats_getBlockedUsers(h) ==
    /\ h.phase = "getBlockedUsers"
    /\ IF blockedUsers[Viewer] = {}
       THEN onChatsUpdate(h, {})
       ELSE /\ handlers' = (handlers \ {h}) \cup
                  {[h EXCEPT !.phase = "blockedUser", !.btodo = blockedUsers[Viewer]]}
            /\ UNCHANGED rendered
    /\ UNCHANGED <<pushes, callbackRuns, surfaced>>
    /\ UNCHANGED <<storeVars, callVars, clientVars, watchVars, chatVars>>

\* getBlockedUsers: await this.getUserDocument(blockedUserId), one at a time
chats_blockedUser(h) ==
    /\ h.phase = "blockedUser"
    /\ LET u == CHOOSE x \in h.btodo : \A y \in h.btodo : x = y \/ StrLess(x, y)
           h1 == [h EXCEPT !.btodo = @ \ {u}, !.bids = @ \cup {u}]
       IN
       IF h1.btodo = {}
       THEN onChatsUpdate(h, h1.bids)
       ELSE /\ handlers' = (handlers \ {h}) \cup {h1}
            /\ UNCHANGED rendered
    /\ UNCHANGED <<pushes, callbackRuns, surfaced>>
    /\ UNCHANGED <<storeVars, callVars, clientVars, watchVars, chatVars>>

(***************************************************************************)
(* ChatManager.loadChats, which ChatManager.initialize awaits before it     *)
(* sets the chat-list listener up.                                         *)
(***************************************************************************)
\* loadChats up to its first await: getUserChats has called getDocs
ChatManager_loadChats ==
    /\ loads = {}
    /\ loads' = {[pc |-> "getDocs", snap |-> [id \in ViewerChats |-> NoDoc],
                  todo |-> {}, out |-> {}]}
    /\ UNCHANGED <<userVars, typingVars, presenceVars, moreVars>>
    /\ UNCHANGED <<storeVars, callVars, watchVars, feedVars, chatVars>>

\* getUserChats: chats.sort by time; loadChats: this.renderChats(result.chats)
loadChats_render(l) ==
    LET Before == {p \in l.out \X l.out : userChatsCompare(p[1], p[2], l.snap) < 0}
    IN
    /\ rendered' = Append(rendered, Roster(0, 0, sort(docs(l.out), Before), l.snap))
    /\ loads' = {[l EXCEPT !.pc = "done"]}

\* getUserChats: await getDocs(chatsQuery) gives the chats of the viewer
loadChats_getDocs(l) ==
    /\ l.pc = "getDocs"
    /\ LET l1 == [l EXCEPT !.snap = [id \in ViewerChats |-> chats[id]],
                           !.todo = {id \in ViewerChats : chats[id].exists},
                           !.pc = "getUserDocument"]
       IN IF l1.todo = {}
          THEN loadChats_render(l1)
          ELSE /\ loads' = {l1}
               /\ UNCHANGED rendered
    /\ UNCHANGED <<pushes, handlers, callbackRuns, surfaced>>
    /\ UNCHANGED <<userVars, typingVars, presenceVars, moreVars>>
    /\ UNCHANGED <<storeVars, callVars, watchVars, chatVars>>

\* getUserChats: await this.getUserDocument(otherUserId) for the next chat
loadChats_getUserDocument(l) ==
    /\ l.pc = "getUserDocument"
    /\ LET d == CHOOSE x \in l.todo : \A y \in l.todo : x = y \/ StrLess(x, y)
           l1 == [l EXCEPT !.todo = @ \ {d}, !.out = @ \cup {d}]
       IN IF l1.todo = {}
          THEN loadChats_render(l1)
          ELSE /\ loads' = {l1}
               /\ UNCHANGED rendered
    /\ UNCHANGED <<pushes, handlers, callbackRuns, surfaced>>
    /\ UNCHANGED <<userVars, typingVars, presenceVars, moreVars>>
    /\ UNCHANGED <<storeVars, callVars, watchVars, chatVars>>

\* the request listeners of the requests page
WatchNext ==
    \/ UIManager_setupRequestsUpdates
    \/ cleanupListeners
    \/ \E u \in OtherUsers : Remote_RequestAdded(u, Viewer)
    \/ \E u \in OtherUsers : Remote_RequestAdded(Viewer, u)
    \/ \E h \in handlers : requests_onSnapshot(h)
    \/ \E h \in handlers : requests_getUserDocument(h)

SpecWatch == StoreInit /\ [][WatchNext]_vars

\* the chat-list listener
RosterNext ==
    \/ ChatManager_loadChats
    \/ \E l \in loads : loadChats_getDocs(l)
    \/ \E l \in loads : loadChats_getUserDocument(l)
    \/ ChatManager_setupChatsUpdates
    \/ \E u \in OtherUsers : Remote_ChatChanges(u)
    \/ \E w \in DOMAIN watches : Remote_WatchError(w)
    \/ \E h \in handlers : chats_onSnapshot(h)
    \/ \E h \in handlers : chats_getUserDocument(h)
    \/ \E h \in handlers : chats_getBlockedUsers(h)
    \/ \E h \in handlers : chats_blockedUser(h)

\* the chat documents a chat with u can have come to by the time the session
\* starts: none, created at c, or created at c with one message at m > c
\* from either member
SeedDocs(u) ==
    {NoDoc}
    \cup {chatDoc(u, Viewer, c) : c \in 1..MaxSeedTime}
    \cup {chatAfterMessage(chatDoc(u, Viewer, p[1]), p[2], "hello", p[3]) :
             p \in {q \in (1..MaxSeedTime) \X {u, Viewer} \X (1..MaxSeedTime) :
                        q[1] < q[3]}}

\* the server timestamps of a chat document
SeedTimes(chat) ==
    IF chat.exists THEN {chat.createdAt, chat.lastMessageTime} \ {0} ELSE {}

\* the viewer's chats at the start of the session; server timestamps differ
SeedStores ==
    {f \in [ViewerChats -> UNION {SeedDocs(u) : u \in OtherUsers}] :
        /\ \A u \in OtherUsers : f[generateChatId(Viewer, u)] \in SeedDocs(u)
        /\ \A i, j \in ViewerChats : i # j => SeedTimes(f[i]) \cap SeedTimes(f[j]) = {}}

\* the messages of a chat document's chat
SeedMessages(chat) ==
    IF chat.exists /\ chat.lastMessageTime # 0
    THEN <<[senderId |-> IF chat.unreadCount[Viewer] > 0
                         THEN OtherMember(chat.members, Viewer) ELSE Viewer,
            text |-> chat.lastMessage, timestamp |-> chat.lastMessageTime,
            read |-> FALSE]>>
    ELSE <<>>

\* the session starts on a store with or without chats of the viewer, the
\* viewer with or without a blocked user and with or without pinned chats
RosterInit ==
    /\ chatRequests = <<>>
    /\ \E f \in SeedStores :
           /\ chats = [id \in ChatIds |-> IF id \in ViewerChats THEN f[id] ELSE NoDoc]
           /\ messages = [id \in ChatIds |->
                             IF id \in ViewerChats THEN SeedMessages(f[id]) ELSE <<>>]
    /\ clock = MaxSeedTime + 1
    /\ \E B \in SUBSET {<<"c">>} :
           blockedUsers = [u \in UserIds |-> IF u = Viewer THEN B ELSE {}]
    /\ NoCalls
    /\ pinnedChats \in SUBSET ViewerChats
    /\ SessionInit

SpecRoster == RosterInit /\ [][RosterNext]_vars

\* the viewer's chats at the start of the session, chats with the same
\* server timestamp among them
TiedStores ==
    {f \in [ViewerChats -> UNION {SeedDocs(u) : u \in OtherUsers}] :
        \A u \in OtherUsers : f[generateChatId(Viewer, u)] \in SeedDocs(u)}

OrderInit ==
    /\ chatRequests = <<>>
    /\ \E f \in TiedStores :
           /\ chats = [id \in ChatIds |-> IF id \in ViewerChats THEN f[id] ELSE NoDoc]
           /\ messages = [id \in ChatIds |->
                             IF id \in ViewerChats THEN SeedMessages(f[id]) ELSE <<>>]
    /\ clock = MaxSeedTime + 1
    /\ \E B \in SUBSET {<<"c">>} :
           blockedUsers = [u \in UserIds |-> IF u = Viewer THEN B ELSE {}]
    /\ NoCalls
    /\ pinnedChats \in SUBSET ViewerChats
    /\ SessionInit

\* ChatManager.initialize on a store no other client writes to meanwhile
OrderNext ==
    \/ ChatManager_loadChats
    \/ \E l \in loads : loadChats_getDocs(l)
    \/ \E l \in loads : loadChats_getUserDocument(l)
    \/ ChatManager_setupChatsUpdates
    \/ \E h \in handlers : chats_onSnapshot(h)
    \/ \E h \in handlers : chats_getUserDocument(h)
    \/ \E h \in handlers : chats_getBlockedUsers(h)
    \/ \E h \in handlers : chats_blockedUser(h)

SpecOrder == OrderInit /\ [][OrderNext]_vars

(***************************************************************************)
(* ChatManager.openChat and closeChat.  An openChat in progress is a       *)
(* record of `opens`; each await of a remote call is one step.             *)
(***************************************************************************)
\* listeners one run of the rest of openChat registers
SetupWatches == IF ServiceHasDb THEN 4 ELSE 1

\* openChat up to its first await: loadMessages has called
\* getChatMessages(this.currentChatId)
openChat(chatId, otherUser) ==
    /\ started < MaxOps
    /\ started' = started + 1
    /\ currentChatId' = chatId
    /\ currentChatUser' = otherUser
    /\ opens' = opens \cup {[id |-> started + 1, chatId |-> chatId,
                             pc |-> "getChatMessages", snap |-> {}]}
    /\ UNCHANGED <<localMessages, calls, returned, failures, concurrent, clientVars>>
    /\ UNCHANGED <<storeVars, watchVars, feedVars>>

\* the invocation t has returned; 0 is the id of the markAllMessagesAsRead
\* calls the messages listener makes
OpenEnd(t) ==
    /\ opens' = opens \ {t}
    /\ UNCHANGED <<currentChatId, currentChatUser, callVars, clientVars, watchVars, feedVars>>

OpenStep(t, next) ==
    /\ opens' = (opens \ {t}) \cup {next}
    /\ UNCHANGED <<currentChatId, currentChatUser, callVars, clientVars, watchVars, feedVars>>

\* a query that returns the documents in the order of their ids
orderBy_none(msgs) == msgs

\* query(collection(db, "chats", chatId, "messages"), orderBy("timestamp", "asc")):
\* the documents by timestamp and, where that is equal, by id
orderBy(msgs) ==
    LET Before == {p \in (DOMAIN msgs) \X (DOMAIN msgs) :
                      \/ msgs[p[1]].timestamp < msgs[p[2]].timestamp
                      \/ msgs[p[1]].timestamp = msgs[p[2]].timestamp /\ p[1] < p[2]}
        order == sort([i \in 1..Len(msgs) |-> i], Before)
    IN [n \in 1..Len(msgs) |-> msgs[order[n]]]

\* loadMessages: this.messages = result.messages; then
\* realTimeService.markAllMessagesAsRead(chatId, this.currentUserId) is called
openChat_getChatMessages(t) ==
    /\ t.pc = "getChatMessages"
    /\ localMessages' = orderBy(messages[t.chatId])
    /\ OpenStep(t, [t EXCEPT !.pc = "markMessagesAsRead_getDocs"])
    /\ UNCHANGED storeVars

\* markMessagesAsRead: await getDocs(messagesQuery), the messages of the
\* other member that are not read
markMessagesAsRead_getDocs(t) ==
    LET snap == {i \in DOMAIN messages[t.chatId] :
                    messages[t.chatId][i].senderId # Viewer /\ ~messages[t.chatId][i].read}
    IN
    /\ t.pc = "markMessagesAsRead_getDocs"
    /\ OpenStep(t, [t EXCEPT !.snap = snap,
                             !.pc = IF snap = {} THEN "markMessagesAsRead_updateDoc"
                                    ELSE "markMessagesAsRead_commit"])
    /\ UNCHANGED <<localMessages, storeVars>>

\* a batch.commit() that marks every message of the conversation
markMessagesAsRead_commit_all(t) ==
    /\ t.pc = "markMessagesAsRead_commit"
    /\ messages' = [messages EXCEPT ![t.chatId] =
           [i \in DOMAIN @ |-> [@[i] EXCEPT !.read = TRUE]]]
    /\ OpenStep(t, [t EXCEPT !.pc = "markMessagesAsRead_updateDoc"])
    /\ UNCHANGED <<localMessages, chatRequests, chats, blockedUsers, clock>>

\* markMessagesAsRead: await batch.commit()
markMessagesAsRead_commit(t) ==
    /\ t.pc = "markMessagesAsRead_commit"
    /\ messages' = [messages EXCEPT ![t.chatId] =
           [i \in DOMAIN @ |-> IF i \in t.snap THEN [@[i] EXCEPT !.read = TRUE] ELSE @[i]]]
    /\ OpenStep(t, [t EXCEPT !.pc = "markMessagesAsRead_updateDoc"])
    /\ UNCHANGED <<localMessages, chatRequests, chats, blockedUsers, clock>>

\* markMessagesAsRead: await updateDoc(chatRef, {unreadCount.userId: 0}); on a
\* chat that is gone it rejects, which markMessagesAsRead catches
markMessagesAsRead_updateDoc(t) ==
    /\ t.pc = "markMessagesAsRead_updateDoc"
    /\ chats' = IF chats[t.chatId].exists
                THEN [chats EXCEPT ![t.chatId].unreadCount[Viewer] = 0]
                ELSE chats
    /\ IF t.id = 0
       THEN OpenEnd(t)
       ELSE OpenStep(t, [t EXCEPT !.pc = "setupChatUpdates"])
    /\ UNCHANGED <<localMessages, chatRequests, messages, blockedUsers, clock>>

\* the function ChatManager.cleanupFunctions has under `name` is called
RunCleanup(ws, name) ==
    IF cleanupFunctions[name].has
    THEN Unsubscribe(ws, cleanupFunctions[name].cancels)
    ELSE ws

\* RealTimeService.listeners after the functions under the names N ran
AfterCleanup(N) ==
    [k \in DOMAIN listeners |->
        IF \E n \in N : cleanupFunctions[n].has /\ k \in cleanupFunctions[n].deletes
        THEN NoEntry ELSE listeners[k]]

\* the rest of openChat, which runs without an await: ChatManager's
\* setupChatUpdates, setupTypingListener and setupOnlineStatusListener, all
\* of them reading this.currentChatId and this.currentChatUser as they are
\* now.  What throws is caught by openChat and ends it:
\*  - setupMessagesListener(null) throws in collection(db, "chats", null, ..);
\*  - RealTimeService.setupChatUpdates throws at firebaseService.db.collection
\*    after setupMessagesListener registered its listener, so the function
\*    that would cancel that listener is never returned.
openChat_setupChatUpdates(t) ==
    LET ws0 == RunCleanup(watches, "chat")
        ls0 == AfterCleanup({"chat"})
        chatId == currentChatId
        otherUserId == currentChatUser
        m == Len(watches) + 1
        c == m + 1
        ty == m + 2
        on == m + 3
        ws1 == setupMessagesListener(ws0, chatId)
        ws2 == onSnapshot(ws1, ChatKey(chatId))
        ws3 == onSnapshot(RunCleanup(ws2, "typing"), TypingKey(chatId, otherUserId))
        ws4 == onSnapshot(RunCleanup(ws3, "onlineStatus"), OnlineKey(otherUserId))
    IN
    /\ t.pc = "setupChatUpdates"
    /\ Len(watches) + SetupWatches <= MaxWatches
    /\ opens' = opens \ {t}
    /\ IF chatId = <<>>
       THEN /\ watches' = ws0
            /\ listeners' = ls0
            /\ UNCHANGED <<unsubscribers, cleanupFunctions>>
       ELSE IF ~ServiceHasDb
       THEN /\ watches' = ws1
            /\ unsubscribers' = [unsubscribers EXCEPT ![MessagesKey(chatId)] = m]
            /\ listeners' = ls0
            /\ UNCHANGED cleanupFunctions
       ELSE /\ watches' = ws4
            /\ unsubscribers' = [unsubscribers EXCEPT ![MessagesKey(chatId)] = m]
            /\ listeners' = [ls0 EXCEPT
                   ![ChatKey(chatId)] = [has |-> TRUE, cancels |-> {m, c}],
                   ![TypingKey(chatId, otherUserId)] = [has |-> TRUE, cancels |-> {ty}],
                   ![OnlineKey(otherUserId)] = [has |-> TRUE, cancels |-> {on}]]
            /\ cleanupFunctions' = [cleanupFunctions EXCEPT
                   !["chat"] = [has |-> TRUE, cancels |-> {m, c},
                                deletes |-> {ChatKey(chatId)}],
                   !["typing"] = [has |-> TRUE, cancels |-> {ty}, deletes |-> {}],
                   !["onlineStatus"] = [has |-> TRUE, cancels |-> {on}, deletes |-> {}]]
    /\ UNCHANGED <<currentChatId, currentChatUser, localMessages>>
    /\ UNCHANGED <<storeVars, callVars, clientVars, feedVars>>

\* ChatManager.closeChat: every function of cleanupFunctions is called and
\* the map is cleared
closeChat ==
    LET N == {n \in CleanupNames : cleanupFunctions[n].has}
        S == UNION {cleanupFunctions[n].cancels : n \in N}
    IN
    /\ currentChatId' = <<>>
    /\ currentChatUser' = <<>>
    /\ watches' = Unsubscribe(watches, S)
    /\ listeners' = AfterCleanup(N)
    /\ cleanupFunctions' = [n \in CleanupNames |-> NoCleanup]
    /\ handlers' = DropUndelivered(handlers, S)
    /\ UNCHANGED <<unsubscribers, localMessages, opens>>
    /\ UNCHANGED <<pushes, callbackRuns, rendered, surfaced>>
    /\ UNCHANGED <<storeVars, callVars, clientVars>>

ChatNext ==
    \/ \E u \in OtherUsers : openChat(generateChatId(Viewer, u), u)
    \/ \E t \in opens : openChat_getChatMessages(t)
    \/ \E t \in opens : markMessagesAsRead_getDocs(t)
    \/ \E t \in opens : markMessagesAsRead_commit(t)
    \/ \E t \in opens : markMessagesAsRead_updateDoc(t)
    \/ \E t \in opens : openChat_setupChatUpdates(t)
    \/ closeChat

\* the viewer has a chat with each other user, with one message of that user
\* in it, read or not
ChatInit ==
    /\ \E unread \in SUBSET OtherUsers :
        /\ chats = [id \in ChatIds |->
               IF \E u \in OtherUsers : id = generateChatId(Viewer, u)
               THEN LET u == CHOOSE x \in OtherUsers : id = generateChatId(Viewer, x) IN
                    [chatAfterMessage(chatDoc(u, Viewer, 1), u, "hello", 2)
                        EXCEPT !.unreadCount[Viewer] = IF u \in unread THEN 1 ELSE 0]
               ELSE NoDoc]
        /\ messages = [id \in ChatIds |->
               IF \E u \in OtherUsers : id = generateChatId(Viewer, u)
               THEN LET u == CHOOSE x \in OtherUsers : id = generateChatId(Viewer, x) IN
                    <<[senderId |-> u, text |-> "hello", timestamp |-> 2,
                       read |-> u \notin unread]>>
               ELSE <<>>]
    /\ chatRequests = <<>>
    /\ blockedUsers = [u \in UserIds |-> {}]
    /\ clock = 3
    /\ NoCalls
    /\ pinnedChats = {}
    /\ SessionInit

SpecChat == ChatInit /\ [][ChatNext]_vars

(***************************************************************************)
(* Requests, conversations and blocks: the properties.                     *)
(***************************************************************************)
\* a run in which the invocations ran one after the other and no remote
\* call rejected
Sequential == ~concurrent /\ failures = 0

\* C1: in every reachable state there is at most one pending ChatRequest for
\* each ordered (fromUserId, toUserId) pair, also when sendChatRequest calls
\* of one sender to one recipient interleave.  Stated on the runs in which no
\* remote call rejects.
AtMostOnePendingPerPair ==
    failures = 0 =>
        \A u, v \in UserIds : Cardinality(PendingFromTo(chatRequests, u, v)) <= 1

\* C2: once a request's status is accepted, rejected or blocked, no step of
\* respondToChatRequest, blockUserFromRequest or toggleBlockUser changes it.
TerminalStatusImmutable ==
    [][\A r \in DOMAIN chatRequests :
          chatRequests[r].status \in Terminal
              => chatRequests'[r].status = chatRequests[r].status]_vars

\* C3: when toggleBlockUser(B, T) has blocked and returns success, T is in
\* B's blocked set, no Conversation of B and T exists, and every request
\* between B and T, in either direction, that was pending when the call
\* began is blocked.  Stated on sequential runs.
BlockCompletes ==
    (/\ Sequential
     /\ returned.op = "toggleBlockUser"
     /\ returned.result = "success"
     /\ returned.action = "blocked")
    => /\ returned.otherId \in blockedUsers[returned.userId]
       /\ ~chats[generateChatId(returned.userId, returned.otherId)].exists
       /\ \A r \in returned.pend0 : chatRequests[r].status = "blocked"

\* C4: a block is applied as a whole or not at all, also when a remote call
\* rejects part-way: when a block that a rejection struck has written
\* anything, then at its return the target is blocked, the Conversation is
\* gone and no request of the target to the blocker is pending.
BlockAllOrNothing ==
    (/\ ~concurrent
     /\ returned.op \in {"toggleBlockUser", "blockUserFromRequest"}
     /\ ~returned.includes
     /\ returned.failedAt # "none"
     /\ returned.applied # {})
    => /\ returned.otherId \in blockedUsers[returned.userId]
       /\ ~chats[generateChatId(returned.userId, returned.otherId)].exists
       /\ PendingFromTo(chatRequests, returned.otherId, returned.userId) = {}

\* C5: whenever blockUserFromRequest(requestId, userId) returns success, the
\* request's sender is in userId's blocked set, whatever the blocked set and
\* the request's status were before.  Stated on sequential runs.
BlockFromRequestBlocks ==
    (/\ Sequential
     /\ returned.op = "blockUserFromRequest"
     /\ returned.result = "success")
    => returned.otherId \in blockedUsers[returned.userId]

\* C6: creating a Conversation for a pair that has one (createChat on its own
\* or by an accepted request) leaves the existing Conversation's lastMessage,
\* lastMessageTime, unreadCount and createdAt as they were.
CreateChatIdempotent ==
    [][\A c \in Slots :
          LET id == generateChatId(calls[c].userId, calls[c].otherId) IN
          (/\ calls[c].pc = "createChat_setDoc"
           /\ calls'[c].pc = "return"
           /\ chats[id].exists)
          => /\ chats'[id].exists
             /\ chats'[id].lastMessage = chats[id].lastMessage
             /\ chats'[id].lastMessageTime = chats[id].lastMessageTime
             /\ chats'[id].unreadCount = chats[id].unreadCount
             /\ chats'[id].createdAt = chats[id].createdAt]_vars

(***************************************************************************)
(* Live queries: the properties.                                           *)
(***************************************************************************)
\* C7: setting a listener up on a topic key that already has one cancels the
\* earlier one first: every topic key has at most one listener the Remote
\* Store feeds, and one change of the Remote Store runs the callback given to
\* setupChatRequestsListener at most once.
OneLiveSubscriptionPerTopic ==
    /\ \A k \in FirebaseKeys : Cardinality(LiveOn(k)) <= 1
    /\ \A v \in DOMAIN callbackRuns : callbackRuns[v] <= 1

\* C9: the rosters one chat-list listener hands to ChatManager.renderChats
\* come in the order of their snapshots: a roster is never followed by the
\* roster of an earlier snapshot of the same listener.
RosterNeverRegresses ==
    \A i, j \in DOMAIN rendered :
        (i < j /\ rendered[i].watch = rendered[j].watch)
            => rendered[i].version <= rendered[j].version

\* C10: a listener the Remote Store ended with an error has had the error
\* handed to its consumer and is no longer the entry of its topic key in
\* FirebaseService.unsubscribers nor in RealTimeService.listeners; no new
\* listener was registered for it by the error.
WatchErrorSurfaced ==
    \A w \in DOMAIN watches :
        watches[w].errored
            => /\ w \in surfaced
               /\ unsubscribers[watches[w].key] # w
               /\ w \notin listeners[watches[w].key].cancels

(***************************************************************************)
(* Open and close of a conversation: the property.                         *)
(***************************************************************************)
ConversationScoped == {"messages", "chat", "typing", "online"}

\* C8: whenever no openChat is in progress, every listener the Remote Store
\* feeds for messages, a chat document, typing or the presence of the other
\* member is one of the open conversation, and there is none when no
\* conversation is open.
ScopedSubscriptionsFollowChat ==
    opens = {} =>
        \A w \in DOMAIN watches :
            (watches[w].live /\ watches[w].key[1] \in ConversationScoped)
                => /\ currentChatId # <<>>
                   /\ watches[w].key \in
                          {MessagesKey(currentChatId), ChatKey(currentChatId),
                           TypingKey(currentChatId, currentChatUser),
                           OnlineKey(currentChatUser)}

(***************************************************************************)
(* RealTimeService: the typing indicator.  startTyping and stopTyping      *)
(* write users/<uid>.typingIn through updateTypingStatus; the updateDoc    *)
(* calls of one client settle in the order they were issued.               *)
(***************************************************************************)
\* startTyping: setTimeout(..., 3000), in seconds
TypingTimeout == 3
\* startTyping and stopTyping calls in one behaviour
MaxKeystrokes == 3
\* the time a behaviour covers, in seconds
MaxTime == 4

\* updateTypingStatus(uid, chatId, isTyping): typingIn: isTyping ? chatId : null;
\* `next` is what the caller does when the await is over
updateTypingStatus(chatId, isTypingArg, next) ==
    [field |-> "typingIn",
     value |-> IF isTypingArg THEN chatId ELSE <<>>,
     chatId |-> chatId,
     next |-> next]

\* clearTimeout(id)
clearTimeout(ts, id) ==
    IF id = 0 THEN ts ELSE [ts EXCEPT ![id].pending = FALSE]

\* startTyping(userId, chatId) with the guard on isTyping left out
startTyping_everyKeystroke(chatId) ==
    /\ keystrokes < MaxKeystrokes
    /\ keystrokes' = keystrokes + 1
    /\ lastStart' = [n |-> lastStart.n + 1, chatId |-> chatId, time |-> seconds,
                     wasTyping |-> isTyping]
    /\ isTyping' = TRUE
    /\ timers' = clearTimeout(timers, typingTimeouts[chatId])
    /\ writes' = Append(writes, updateTypingStatus(chatId, TRUE, "setTimeout"))
    /\ UNCHANGED <<typingTimeouts, seconds, typingIn, isOnline, pinnedChats, loads, moreVars>>
    /\ UNCHANGED <<presenceVars, storeVars, callVars, watchVars, feedVars, chatVars>>

\* RealTimeService.startTyping(userId, chatId) up to its await, as the
\* debounced typingHandler of the chat input calls it
startTyping(chatId) ==
    /\ keystrokes < MaxKeystrokes
    /\ keystrokes' = keystrokes + 1
    /\ lastStart' = [n |-> lastStart.n + 1, chatId |-> chatId, time |-> seconds,
                     wasTyping |-> isTyping]
    /\ IF isTyping
       THEN UNCHANGED <<isTyping, timers, writes>>
       ELSE /\ isTyping' = TRUE
            /\ timers' = clearTimeout(timers, typingTimeouts[chatId])
            /\ writes' = Append(writes, updateTypingStatus(chatId, TRUE, "setTimeout"))
    /\ UNCHANGED <<typingTimeouts, seconds, typingIn, isOnline, pinnedChats, loads, moreVars>>
    /\ UNCHANGED <<presenceVars, storeVars, callVars, watchVars, feedVars, chatVars>>

\* the body of stopTyping with the write left out
stopTypingBody_noWrite(chatId, ts) ==
    IF ~isTyping
    THEN /\ timers' = ts
         /\ UNCHANGED <<isTyping, typingTimeouts, writes>>
    ELSE /\ isTyping' = FALSE
         /\ timers' = clearTimeout(ts, typingTimeouts[chatId])
         /\ typingTimeouts' = [typingTimeouts EXCEPT ![chatId] = 0]
         /\ UNCHANGED writes

\* the body of RealTimeService.stopTyping(userId, chatId) up to its await;
\* ts is the timers as its caller leaves them
stopTypingBody(chatId, ts) ==
    IF ~isTyping
    THEN /\ timers' = ts
         /\ UNCHANGED <<isTyping, typingTimeouts, writes>>
    ELSE /\ isTyping' = FALSE
         /\ timers' = clearTimeout(ts, typingTimeouts[chatId])
         /\ typingTimeouts' = [typingTimeouts EXCEPT ![chatId] = 0]
         /\ writes' = Append(writes, updateTypingStatus(chatId, FALSE, "none"))

\* stopTyping as ChatManager.sendMessage calls it after a message was sent
stopTyping(chatId) ==
    /\ keystrokes < MaxKeystrokes
    /\ keystrokes' = keystrokes + 1
    /\ stopTypingBody(chatId, timers)
    /\ UNCHANGED <<lastStart, seconds, typingIn, isOnline, pinnedChats, loads, moreVars>>
    /\ UNCHANGED <<presenceVars, storeVars, callVars, watchVars, feedVars, chatVars>>

\* the timer startTyping set is due: await this.stopTyping(userId, chatId)
typingTimeout(t) ==
    /\ timers[t].pending
    /\ seconds >= timers[t].due
    /\ stopTypingBody(timers[t].chatId, [timers EXCEPT ![t].pending = FALSE])
    /\ UNCHANGED <<lastStart, keystrokes, seconds, typingIn, isOnline, pinnedChats, loads, moreVars>>
    /\ UNCHANGED <<presenceVars, storeVars, callVars, watchVars, feedVars, chatVars>>

\* the oldest updateDoc on users/<uid> settles and its caller resumes:
\* startTyping sets its timer and stores it under the chat id
updateDoc_settles ==
    /\ writes # <<>>
    /\ LET w == Head(writes) IN
       /\ typingIn' = IF w.field = "typingIn" THEN w.value ELSE typingIn
       /\ isOnline' = IF w.field = "isOnline" THEN w.value ELSE isOnline
       /\ IF w.next = "setTimeout"
          THEN /\ timers' = Append(timers, [chatId |-> w.chatId,
                                            due |-> seconds + TypingTimeout,
                                            pending |-> TRUE])
               /\ typingTimeouts' = [typingTimeouts EXCEPT ![w.chatId] = Len(timers) + 1]
          ELSE UNCHANGED <<timers, typingTimeouts>>
    /\ writes' = Tail(writes)
    /\ UNCHANGED <<isTyping, lastStart, keystrokes, seconds, pinnedChats, loads, moreVars>>
    /\ UNCHANGED <<presenceVars, storeVars, callVars, watchVars, feedVars, chatVars>>

\* a second passes
Tick ==
    /\ seconds < MaxTime
    /\ seconds' = seconds + 1
    /\ UNCHANGED <<isTyping, typingTimeouts, timers, lastStart, keystrokes>>
    /\ UNCHANGED <<loads, moreVars, userVars, presenceVars>>
    /\ UNCHANGED <<storeVars, callVars, watchVars, feedVars, chatVars>>

\* RealTimeService.cleanup: the intervals and timeouts the maps hold are
\* cleared, the listeners of `listeners` are unsubscribed, the maps are
\* emptied, isTyping = false
RealTimeService_cleanup ==
    LET S == UNION {listeners[k].cancels : k \in {x \in DOMAIN listeners : listeners[x].has}}
    IN
    /\ intervals' = IF updateIntervals = 0 THEN intervals
                    ELSE [intervals EXCEPT ![updateIntervals].active = FALSE]
    /\ updateIntervals' = 0
    /\ timers' = [t \in DOMAIN timers |->
                    IF \E id \in ViewerChats : typingTimeouts[id] = t
                    THEN [timers[t] EXCEPT !.pending = FALSE] ELSE timers[t]]
    /\ typingTimeouts' = [id \in ViewerChats |-> 0]
    /\ watches' = Unsubscribe(watches, S)
    /\ listeners' = [k \in DOMAIN listeners |-> NoEntry]
    /\ handlers' = DropUndelivered(handlers, S)
    /\ isTyping' = FALSE
    /\ UNCHANGED <<lastStart, keystrokes, seconds, loads, moreVars, userVars>>
    /\ UNCHANGED <<visibilityListeners, hidden, mode, presenceOps>>
    /\ UNCHANGED <<unsubscribers, cleanupFunctions, pushes, callbackRuns, rendered, surfaced>>
    /\ UNCHANGED <<storeVars, callVars, chatVars>>

TypingNext ==
    \/ \E id \in ViewerChats : startTyping(id)
    \/ \E id \in ViewerChats : stopTyping(id)
    \/ \E t \in DOMAIN timers : typingTimeout(t)
    \/ updateDoc_settles
    \/ Tick
    \/ RealTimeService_cleanup

SpecTyping == StoreInit /\ [][TypingNext]_vars

(***************************************************************************)
(* The typing indicator: the properties.                                   *)
(***************************************************************************)
\* C11: a startTyping call that finds the state Typing issues no write of
\* typingIn, and a call that finds it Idle issues exactly one, of the chat id.
TypingBurstWritesOnce ==
    [][lastStart'.n = lastStart.n + 1
          => IF isTyping
             THEN writes' = writes
             ELSE writes' = Append(writes,
                      updateTypingStatus(lastStart'.chatId, TRUE, "setTimeout"))]_vars

\* C11, its case: a startTyping call arrived in state Typing
KeystrokeWhileTyping == lastStart.wasTyping

\* C12: a startTyping call that arrives in state Typing re-arms the timer:
\* while the state is Typing and the timer of the chat last typed in is
\* pending, the timer is due no sooner than TypingTimeout after that call.
TimerRearmedByKeystroke ==
    \A id \in ViewerChats :
        (/\ isTyping
         /\ lastStart.chatId = id
         /\ typingTimeouts[id] # 0
         /\ timers[typingTimeouts[id]].pending)
        => timers[typingTimeouts[id]].due >= lastStart.time + TypingTimeout

\* C13: the typing state is per conversation: when the state is Typing, the
\* last startTyping call was for chat C and no write is in flight, the remote
\* typingIn is C.
TypingIsPerConversation ==
    (isTyping /\ lastStart.n > 0 /\ writes = <<>>) => typingIn = lastStart.chatId

TypingSelfClears ==
    (writes = <<>> /\ \A t \in DOMAIN timers : ~timers[t].pending)
        => (~isTyping /\ typingIn = <<>>)

\* ------------------------------------------------------------------
\* Presence: RealTimeService.setupUserStatusUpdates
\* ------------------------------------------------------------------

MaxPresenceOps == 4

Modes == {"auto", "online", "offline"}

\* FirebaseService.updateUserStatus -> updateUserDocument({isOnline, lastSeen})
updateUserStatus(isOnlineArg) ==
    [field |-> "isOnline", value |-> isOnlineArg, chatId |-> <<>>, next |-> "none"]

\* the heartbeat's updateUserDocument({lastSeen})
updateLastSeen ==
    [field |-> "lastSeen", value |-> TRUE, chatId |-> <<>>, next |-> "none"]

\* clearInterval(this.updateIntervals.get('status'))
clearInterval(is, id) ==
    IF id = 0 THEN is ELSE [is EXCEPT ![id].active = FALSE]

\* setupUserStatusUpdates that arms without cancelling the held interval
setupUserStatusUpdates_noClear(m) ==
    /\ presenceOps < MaxPresenceOps
    /\ presenceOps' = presenceOps + 1
    /\ mode' = m
    /\ IF m = "auto"
       THEN /\ intervals' = Append(intervals, [active |-> TRUE])
            /\ updateIntervals' = Len(intervals) + 1
            /\ visibilityListeners' = visibilityListeners + 1
            /\ UNCHANGED writes
       ELSE /\ UNCHANGED <<intervals, updateIntervals, visibilityListeners>>
            /\ writes' = Append(writes, updateUserStatus(m = "online"))
    /\ UNCHANGED <<hidden, typingIn, isOnline, pinnedChats, loads, typingVars>>
    /\ UNCHANGED <<pinVars, msgVars, sendVars, nameVars, idVars>>
    /\ UNCHANGED <<storeVars, callVars, watchVars, feedVars, chatVars>>

\* setupUserStatusUpdates(userId, mode): the held interval is cleared (its
\* entry stays in the map); auto arms a new heartbeat and adds one more
\* visibilitychange listener to the document; online / offline start one
\* isOnline write
setupUserStatusUpdates(m) ==
    /\ presenceOps < MaxPresenceOps
    /\ presenceOps' = presenceOps + 1
    /\ mode' = m
    /\ IF m = "auto"
       THEN /\ intervals' = Append(clearInterval(intervals, updateIntervals),
                                   [active |-> TRUE])
            /\ updateIntervals' = Len(intervals) + 1
            /\ visibilityListeners' = visibilityListeners + 1
            /\ UNCHANGED writes
       ELSE /\ intervals' = clearInterval(intervals, updateIntervals)
            /\ UNCHANGED <<updateIntervals, visibilityListeners>>
            /\ writes' = Append(writes, updateUserStatus(m = "online"))
    /\ UNCHANGED <<hidden, typingIn, isOnline, pinnedChats, loads, typingVars>>
    /\ UNCHANGED <<pinVars, msgVars, sendVars, nameVars, idVars>>
    /\ UNCHANGED <<storeVars, callVars, watchVars, feedVars, chatVars>>

\* k listeners each start updateUserOnlineStatus(userId, !document.hidden)
VisibilityWrites(k, v) == [i \in 1..k |-> updateUserStatus(v)]

\* the document's visibilitychange event: every listener added so far runs
visibilitychange ==
    /\ presenceOps < MaxPresenceOps
    /\ presenceOps' = presenceOps + 1
    /\ hidden' = ~hidden
    /\ writes' = writes \o VisibilityWrites(visibilityListeners, hidden)
    /\ UNCHANGED <<updateIntervals, intervals, visibilityListeners, mode>>
    /\ UNCHANGED <<typingIn, isOnline, pinnedChats, loads, moreVars, typingVars>>
    /\ UNCHANGED <<storeVars, callVars, watchVars, feedVars, chatVars>>

\* a heartbeat interval that is still active fires (every 60 s)
heartbeat(i) ==
    /\ presenceOps < MaxPresenceOps
    /\ intervals[i].active
    /\ presenceOps' = presenceOps + 1
    /\ writes' = Append(writes, updateLastSeen)
    /\ UNCHANGED <<updateIntervals, intervals, visibilityListeners, hidden, mode>>
    /\ UNCHANGED <<typingIn, isOnline, pinnedChats, loads, moreVars, typingVars>>
    /\ UNCHANGED <<storeVars, callVars, watchVars, feedVars, chatVars>>

PresenceNext ==
    \/ \E m \in Modes : setupUserStatusUpdates(m) /\ UNCHANGED initialized
    \/ visibilitychange
    \/ \E i \in DOMAIN intervals : heartbeat(i)
    \/ updateDoc_settles
    \/ RealTimeService_cleanup

SpecPresence == StoreInit /\ [][PresenceNext]_vars

ActiveHeartbeats == {i \in DOMAIN intervals : intervals[i].active}

\* C16: after any sequence of setupUserStatusUpdates calls at most one
\* heartbeat interval is active, and none is active when the last mode set
\* was online or offline.
AtMostOneHeartbeat ==
    /\ Cardinality(ActiveHeartbeats) <= 1
    /\ mode \in {"online", "offline"} => ActiveHeartbeats = {}

\* a heartbeat was armed twice and the mode then forced: all are cancelled
HeartbeatsCancelledByForcedMode ==
    /\ Len(intervals) >= 2
    /\ mode \in {"online", "offline"}
    /\ updateIntervals # 0

\* C17: visibility-triggered isOnline writes belong to mode auto only: with
\* the mode last set to online or offline, a page visibility change starts
\* no write (so forced-offline mode never writes isOnline = true).
VisibilityWritesOnlyInAuto ==
    [][(mode \in {"online", "offline"} /\ hidden' # hidden) => writes' = writes]_vars

(***************************************************************************)
(* The roster: the properties.                                             *)
(***************************************************************************)
\* the viewer's unread class of a chat of roster r
HasUnread(r, id) == r.snap[id].unreadCount[Viewer] > 0

\* C18: every roster handed to the presentation layer, from the initial load
\* and from live chat-list updates alike, holds no conversation whose
\* counterpart is in the viewer's blocked set.
RosterExcludesBlocked ==
    \A n \in DOMAIN rendered :
        \A i \in DOMAIN rendered[n].chats :
            OtherMember(rendered[n].snap[rendered[n].chats[i]].members, Viewer)
                \notin rendered[n].blocked

GroupsOrderedByUnreadThenTime ==
    \A n \in DOMAIN rendered :
        LET r == rendered[n] IN
        \A i, j \in DOMAIN r.chats :
            (i < j /\ (r.chats[i] \in r.pinned <=> r.chats[j] \in r.pinned))
                => /\ ~(~HasUnread(r, r.chats[i]) /\ HasUnread(r, r.chats[j]))
                   /\ (HasUnread(r, r.chats[i]) <=> HasUnread(r, r.chats[j]))
                          => timeOf(r.snap[r.chats[i]]) >= timeOf(r.snap[r.chats[j]])

\* conversations a and b of roster r are equal on pinned status, unread class
\* and timestamp
Tied(r, a, b) ==
    /\ (a \in r.pinned <=> b \in r.pinned)
    /\ (HasUnread(r, a) <=> HasUnread(r, b))
    /\ timeOf(r.snap[a]) = timeOf(r.snap[b])

MaxPinCalls == 3

PinSessions == {"this", "tab"}

\* firebaseService.getCurrentUserData()?.pinnedChats || []
cachedPinnedChats(session) ==
    IF session = "this" THEN pinnedChats ELSE tabPinnedChats

InFlight(session) ==
    {i \in DOMAIN pinCalls : pinCalls[i].session = session /\ pinCalls[i].pc # "done"}

\* pinChat up to its await: updatedPinnedChats is computed from the session's
\* current user data and handed to updateUserDocument.  The user calls again
\* once the previous call of the session has shown its result.
pinChat(session, chatId) ==
    LET cached == cachedPinnedChats(session)
        unpin == chatId \in cached
    IN
    /\ Len(pinCalls) < MaxPinCalls
    /\ InFlight(session) = {}
    /\ pinCalls' = Append(pinCalls,
           [session |-> session, chatId |-> chatId,
            action |-> IF unpin THEN "unpinned" ELSE "pinned",
            updatedPinnedChats |-> IF unpin THEN cached \ {chatId}
                                   ELSE cached \cup {chatId},
            before |-> pinnedChatsDoc,
            cached |-> cached,
            concurrent |-> \E s \in PinSessions : InFlight(s) # {},
            pc |-> "updateUserDocument"])
    /\ UNCHANGED <<pinnedChatsDoc, tabPinnedChats>>
    /\ UNCHANGED <<loads, userVars, typingVars, presenceVars, msgVars, sendVars, nameVars, idVars, bootVars>>
    /\ UNCHANGED <<storeVars, callVars, watchVars, feedVars, chatVars>>

\* await firebaseService.updateUserDocument(userId, {pinnedChats: updatedPinnedChats})
pinChat_updateUserDocument(i) ==
    /\ pinCalls[i].pc = "updateUserDocument"
    /\ pinnedChatsDoc' = pinCalls[i].updatedPinnedChats
    /\ pinCalls' = [pinCalls EXCEPT ![i].pc = "done"]
    /\ UNCHANGED tabPinnedChats
    /\ UNCHANGED <<loads, userVars, typingVars, presenceVars, msgVars, sendVars, nameVars, idVars, bootVars>>
    /\ UNCHANGED <<storeVars, callVars, watchVars, feedVars, chatVars>>

\* both sessions signed in on a store that holds the viewer's chats
PinInit ==
    /\ chatRequests = <<>>
    /\ \E f \in {g \in SeedStores : \A id \in ViewerChats : g[id].exists} :
           /\ chats = [id \in ChatIds |-> IF id \in ViewerChats THEN f[id] ELSE NoDoc]
           /\ messages = [id \in ChatIds |->
                             IF id \in ViewerChats THEN SeedMessages(f[id]) ELSE <<>>]
    /\ clock = MaxSeedTime + 1
    /\ blockedUsers = [u \in UserIds |-> {}]
    /\ NoCalls
    /\ pinnedChats \in SUBSET ViewerChats
    /\ SessionInit

PinNext ==
    \/ \E s \in PinSessions, id \in ViewerChats : pinChat(s, id)
    \/ \E i \in DOMAIN pinCalls : pinChat_updateUserDocument(i)

SpecPin == PinInit /\ [][PinNext]_vars

\* C22: two pinChat calls in a row on the same conversation pin it and then
\* unpin it: once the second has returned, the stored pinnedChats and the
\* pinned set the roster is ordered by are what they were before the first.
PinRoundTrip ==
    \A i \in DOMAIN pinCalls :
        (/\ i + 1 = Len(pinCalls)
         /\ pinCalls[i].session = pinCalls[i + 1].session
         /\ pinCalls[i].chatId = pinCalls[i + 1].chatId
         /\ pinCalls[i].action = "pinned"
         /\ \A k \in DOMAIN pinCalls : pinCalls[k].pc = "done")
        => /\ pinCalls[i + 1].action = "unpinned"
           /\ pinnedChatsDoc = pinCalls[i].before
           /\ cachedPinnedChats(pinCalls[i].session) = pinCalls[i].cached

\* C23: no pin is lost under concurrency: when two sessions of the principal
\* pin two different conversations at the same time, the stored pinnedChats
\* holds both once both calls have returned.
NoLostPin ==
    (/\ Len(pinCalls) = 2
     /\ pinCalls[2].concurrent
     /\ pinCalls[1].session # pinCalls[2].session
     /\ pinCalls[1].chatId # pinCalls[2].chatId
     /\ pinCalls[1].action = "pinned" /\ pinCalls[2].action = "pinned"
     /\ \A k \in DOMAIN pinCalls : pinCalls[k].pc = "done")
    => {pinCalls[1].chatId, pinCalls[2].chatId} \subseteq pinnedChatsDoc

(***************************************************************************)
(* Request, accept, first message.                                         *)
(***************************************************************************)
\* one client after the other sends requests, answers them and sends
\* messages; no remote call rejects
ScenarioNext ==
    \E c \in {1} :
        \/ \E u, v \in Actors : u # v /\ sendChatRequest(c, u, v)
        \/ sendChatRequest_getChatRequest(c)
        \/ sendChatRequest_getChat(c)
        \/ sendChatRequest_addDoc(c)
        \/ \E r \in DOMAIN chatRequests, rsp \in Responses, u \in Actors :
               respondToChatRequest(c, r, rsp, u)
        \/ respond_getDoc(c)
        \/ respond_updateDoc(c)
        \/ createChat_setDoc(c)
        \/ \E u, v \in Actors, t \in Texts :
               u # v /\ sendMessage(c, generateChatId(u, v), u, t)
        \/ sendMessage_addDoc(c)
        \/ sendMessage_getChat(c)
        \/ sendMessage_updateDoc(c)
        \/ Return(c)

SpecScenario == StoreInit /\ [][ScenarioNext]_vars

\* the invocation that returned last accepted a request from A to B
AcceptReturned(A, B) ==
    /\ returned.op = "respondToChatRequest"
    /\ returned.result = "success"
    /\ returned.response = "accepted"
    /\ returned.userId = B
    /\ chatRequests[returned.requestId].fromUserId = A

\* the run was: A's request to B, B's accept, A's sendMessage of "hello",
\* which has just returned
HelloReturned(A, B) ==
    /\ started = 3
    /\ returned.op = "sendMessage"
    /\ returned.result = "success"
    /\ returned.userId = A
    /\ returned.chatId = generateChatId(A, B)
    /\ returned.text = "hello"
    /\ chatRequests = <<[fromUserId |-> A, toUserId |-> B, status |-> "accepted"]>>

\* C24: starting from A's pending request to B, after B accepts the
\* Conversation of A and B exists with unreadCount 0 for both members; after A
\* then sends "hello", unreadCount[B] is 1, unreadCount[A] is 0 and
\* lastMessage is "hello".  A scenario: stated on sequential runs.
AcceptThenHello ==
    \A A, B \in Actors :
        LET chat == chats[generateChatId(A, B)] IN
        /\ (Sequential /\ A # B /\ AcceptReturned(A, B))
              => /\ chat.exists
                 /\ chat.unreadCount[A] = 0 /\ chat.unreadCount[B] = 0
        /\ (Sequential /\ A # B /\ HelloReturned(A, B))
              => /\ chat.exists
                 /\ chat.unreadCount[B] = 1 /\ chat.unreadCount[A] = 0
                 /\ chat.lastMessage = "hello"

\* the scenario has run to its end
ScenarioRan == Sequential /\ \E A, B \in Actors : A # B /\ HelloReturned(A, B)

-----------------------------------------------------------------------------
\* Marking a conversation read (firebase.js markMessagesAsRead), run by the
\* viewer while both members keep sending.

\* one conversation is opened at a time, so ChatManager.messages is what the
\* open in progress loaded just before it called markAllMessagesAsRead
ReadOpen(chatId, otherUser) ==
    /\ opens = {}
    /\ openChat(chatId, otherUser)

ReadNext ==
    \/ \E u \in OtherUsers : ReadOpen(generateChatId(Viewer, u), u)
    \/ \E t \in opens : openChat_getChatMessages(t)
    \/ \E t \in opens : markMessagesAsRead_getDocs(t)
    \/ \E t \in opens : markMessagesAsRead_commit(t)
    \/ \E t \in opens : markMessagesAsRead_updateDoc(t)
    \/ \E t \in opens : openChat_setupChatUpdates(t)
    \/ \E c \in {1} :
        \/ \E u \in OtherUsers : \E s \in {Viewer, u} :
               sendMessage(c, generateChatId(Viewer, u), s, "hello")
        \/ sendMessage_addDoc(c)
        \/ sendMessage_getChat(c)
        \/ sendMessage_updateDoc(c)
        \/ Return(c)

\* every conversation of the viewer holds a message of the other member,
\* read or not, and after it a message of the viewer the other member has
\* not read
ReadInit ==
    /\ \E unread \in SUBSET OtherUsers :
        /\ chats = [id \in ChatIds |->
               IF \E u \in OtherUsers : id = generateChatId(Viewer, u)
               THEN LET u == CHOOSE x \in OtherUsers : id = generateChatId(Viewer, x) IN
                    [chatAfterMessage(chatAfterMessage(chatDoc(u, Viewer, 1),
                                                       u, "hello", 2),
                                      Viewer, "hello", 3)
                        EXCEPT !.unreadCount[Viewer] = IF u \in unread THEN 1 ELSE 0]
               ELSE NoDoc]
        /\ messages = [id \in ChatIds |->
               IF \E u \in OtherUsers : id = generateChatId(Viewer, u)
               THEN LET u == CHOOSE x \in OtherUsers : id = generateChatId(Viewer, x) IN
                    <<[senderId |-> u, text |-> "hello", timestamp |-> 2,
                       read |-> u \notin unread],
                      [senderId |-> Viewer, text |-> "hello", timestamp |-> 3,
                       read |-> FALSE]>>
               ELSE <<>>]
    /\ chatRequests = <<>>
    /\ blockedUsers = [u \in UserIds |-> {}]
    /\ clock = 4
    /\ NoCalls
    /\ pinnedChats = {}
    /\ SessionInit

SpecRead == ReadInit /\ [][ReadNext]_vars

\* the other member of the conversation the open t is of
otherMember(t) == CHOOSE u \in OtherUsers : t.chatId = generateChatId(Viewer, u)

\* once markMessagesAsRead of the open t has returned: what the other member
\* sent and was unread at the call is read, what the viewer sent is as it was
MarkedRead(t) ==
    \A i \in DOMAIN localMessages :
        /\ (localMessages[i].senderId # Viewer /\ ~localMessages[i].read)
              => messages[t.chatId][i] = [localMessages[i] EXCEPT !.read = TRUE]
        /\ localMessages[i].senderId = Viewer
              => messages[t.chatId][i] = localMessages[i]

\* the steps of markMessagesAsRead leave the other member's count alone and
\* its last one leaves the viewer's at 0
MarkReadCounts(t) ==
    /\ (markMessagesAsRead_getDocs(t) \/ markMessagesAsRead_commit(t))
          => chats' = chats
    /\ markMessagesAsRead_updateDoc(t)
          => /\ chats'[t.chatId].unreadCount[Viewer] = 0
             /\ chats'[t.chatId].unreadCount[otherMember(t)]
                   = chats[t.chatId].unreadCount[otherMember(t)]
             /\ \A id \in ChatIds \ {t.chatId} : chats'[id] = chats[id]

\* C25: marking a conversation read as R leaves unreadCount[R] at 0 and
\* read = true on every message of the other member that was unread, and
\* changes no message R sent and not the other member's unreadCount.
MarkReadFrame ==
    /\ [](\A t \in opens : t.pc = "setupChatUpdates" => MarkedRead(t))
    /\ [][\A t \in opens : MarkReadCounts(t)]_vars

\* C25 witness: markMessagesAsRead returned on a conversation that had an
\* unread message of the other member and an unread message of the viewer,
\* and the other member's count is still 1
MarkedWithBothUnread ==
    \E t \in opens :
        /\ t.pc = "setupChatUpdates"
        /\ t.snap # {}
        /\ \E i \in DOMAIN localMessages :
               localMessages[i].senderId = Viewer /\ ~localMessages[i].read
        /\ chats[t.chatId].unreadCount[Viewer] = 0
        /\ chats[t.chatId].unreadCount[otherMember(t)] = 1


-----------------------------------------------------------------------------
(***************************************************************************)
(* One message: react, edit and delete.  RealTimeService.addReaction,      *)
(* removeReaction and editMessage reach the store through                  *)
(* firebaseService.db, FirebaseService.deleteMessage through the module's  *)
(* own db.                                                                 *)
(***************************************************************************)
\* calls in one behaviour
MaxMsgCalls == 3

\* two of the reactions of the message menu (chat.js createMessageContextMenu)
Emojis == {"thumbs_up", "heart"}
NewTexts == {"edited"}

\* a call that has returned, or is at its first await
MsgCall(op, userId, messageId, pc, result) ==
    [op |-> op, userId |-> userId, messageId |-> messageId, emoji |-> "none",
     deleteForEveryone |-> FALSE, pc |-> pc, result |-> result]

\* the transaction of addReaction: the reactions without the pair, then the pair
addReaction_transaction(reactions, userId, emoji) ==
    Append(SelectSeq(reactions, LAMBDA r : r.userId # userId \/ r.emoji # emoji),
           [userId |-> userId, emoji |-> emoji])

\* the transaction of removeReaction: the reactions without the pair
removeReaction_transaction(reactions, userId, emoji) ==
    SelectSeq(reactions, LAMBDA r : ~(r.userId = userId /\ r.emoji = emoji))

\* RealTimeService.addReaction with a transaction that runs and pushes the
\* pair onto the reactions as they are
addReaction_push(userId, messageId, emoji) ==
    /\ Len(msgCalls) < MaxMsgCalls
    /\ messageDocs[messageId].exists
    /\ messageDocs' = [messageDocs EXCEPT ![messageId].reactions =
                          Append(@, [userId |-> userId, emoji |-> emoji])]
    /\ msgCalls' = Append(msgCalls,
           [MsgCall("addReaction", userId, messageId, "done", "success")
               EXCEPT !.emoji = emoji])
    /\ UNCHANGED <<loads, userVars, typingVars, presenceVars, pinVars, sendVars, nameVars, idVars, bootVars>>
    /\ UNCHANGED <<storeVars, callVars, watchVars, feedVars, chatVars>>

\* RealTimeService.addReaction.  firebaseService.db.doc(...) throws before
\* the first await and the catch turns it into a failure; with a db the
\* transaction reads the message, throws 'Message not found' or updates
\* reactions, all in one atomic commit.
addReaction(userId, messageId, emoji) ==
    LET ran == ServiceHasDb /\ messageDocs[messageId].exists IN
    /\ Len(msgCalls) < MaxMsgCalls
    /\ messageDocs' = IF ran
                      THEN [messageDocs EXCEPT ![messageId].reactions =
                               addReaction_transaction(@, userId, emoji)]
                      ELSE messageDocs
    /\ msgCalls' = Append(msgCalls,
           [MsgCall("addReaction", userId, messageId, "done",
                    IF ran THEN "success" ELSE "failure")
               EXCEPT !.emoji = emoji])
    /\ UNCHANGED <<loads, userVars, typingVars, presenceVars, pinVars, sendVars, nameVars, idVars, bootVars>>
    /\ UNCHANGED <<storeVars, callVars, watchVars, feedVars, chatVars>>

\* RealTimeService.removeReaction, which fails the same way
removeReaction(userId, messageId, emoji) ==
    LET ran == ServiceHasDb /\ messageDocs[messageId].exists IN
    /\ Len(msgCalls) < MaxMsgCalls
    /\ messageDocs' = IF ran
                      THEN [messageDocs EXCEPT ![messageId].reactions =
                               removeReaction_transaction(@, userId, emoji)]
                      ELSE messageDocs
    /\ msgCalls' = Append(msgCalls,
           [MsgCall("removeReaction", userId, messageId, "done",
                    IF ran THEN "success" ELSE "failure")
               EXCEPT !.emoji = emoji])
    /\ UNCHANGED <<loads, userVars, typingVars, presenceVars, pinVars, sendVars, nameVars, idVars, bootVars>>
    /\ UNCHANGED <<storeVars, callVars, watchVars, feedVars, chatVars>>

\* FirebaseService.editMessage: updateDoc(messageRef, {text, edited: true, editedAt})
FirebaseService_editMessage(doc, newText) ==
    [doc EXCEPT !.text = newText, !.edited = TRUE]

\* RealTimeService.editMessage.  firebaseService.db.doc(...) throws before
\* the first await; with a db it reads the message, refuses a missing one
\* and a caller that is not its sender, and calls FirebaseService.editMessage.
editMessage(userId, messageId, newText) ==
    LET doc == messageDocs[messageId]
        ran == ServiceHasDb /\ doc.exists /\ doc.senderId = userId
    IN
    /\ Len(msgCalls) < MaxMsgCalls
    /\ messageDocs' = IF ran
                      THEN [messageDocs EXCEPT ![messageId] =
                               FirebaseService_editMessage(@, newText)]
                      ELSE messageDocs
    /\ msgCalls' = Append(msgCalls,
           MsgCall("editMessage", userId, messageId, "done",
                   IF ran THEN "success" ELSE "failure"))
    /\ UNCHANGED <<loads, userVars, typingVars, presenceVars, pinVars, sendVars, nameVars, idVars, bootVars>>
    /\ UNCHANGED <<storeVars, callVars, watchVars, feedVars, chatVars>>

\* RealTimeService.deleteMessage, which hands the call to
\* FirebaseService.deleteMessage: up to its first await
deleteMessage(userId, messageId, deleteForEveryone) ==
    /\ Len(msgCalls) < MaxMsgCalls
    /\ msgCalls' = Append(msgCalls,
           [MsgCall("deleteMessage", userId, messageId,
                    IF deleteForEveryone THEN "deleteMessage_getDoc"
                    ELSE "deleteMessage_updateDoc", "none")
               EXCEPT !.deleteForEveryone = deleteForEveryone])
    /\ UNCHANGED messageDocs
    /\ UNCHANGED <<loads, userVars, typingVars, presenceVars, pinVars, sendVars, nameVars, idVars, bootVars>>
    /\ UNCHANGED <<storeVars, callVars, watchVars, feedVars, chatVars>>

\* a step of the call i that leaves it as `next`
MsgStep(i, next) ==
    /\ msgCalls' = [msgCalls EXCEPT ![i] = next]
    /\ UNCHANGED <<loads, userVars, typingVars, presenceVars, pinVars, sendVars, nameVars, idVars, bootVars>>
    /\ UNCHANGED <<storeVars, callVars, watchVars, feedVars, chatVars>>

\* a getDoc after which the message is deleted whoever sent it
deleteMessage_getDoc_unchecked(i) ==
    LET k == msgCalls[i] IN
    /\ k.pc = "deleteMessage_getDoc"
    /\ MsgStep(i, [k EXCEPT !.pc = "deleteMessage_deleteDoc"])
    /\ UNCHANGED messageDocs

\* deleteForEveryone: await getDoc(messageRef), then the check of the sender
deleteMessage_getDoc(i) ==
    LET k == msgCalls[i]
        messageDoc == messageDocs[k.messageId]
    IN
    /\ k.pc = "deleteMessage_getDoc"
    /\ IF messageDoc.exists /\ messageDoc.senderId = k.userId
       THEN MsgStep(i, [k EXCEPT !.pc = "deleteMessage_deleteDoc"])
       ELSE MsgStep(i, [k EXCEPT !.pc = "done", !.result = "failure"])
    /\ UNCHANGED messageDocs

\* deleteForEveryone: await deleteDoc(messageRef)
deleteMessage_deleteDoc(i) ==
    LET k == msgCalls[i] IN
    /\ k.pc = "deleteMessage_deleteDoc"
    /\ messageDocs' = [messageDocs EXCEPT ![k.messageId] = NoDoc]
    /\ MsgStep(i, [k EXCEPT !.pc = "done", !.result = "success"])

\* delete for me: await updateDoc(messageRef, {deletedFor: arrayUnion(userId)});
\* updateDoc of a document that is gone rejects
deleteMessage_updateDoc(i) ==
    LET k == msgCalls[i] IN
    /\ k.pc = "deleteMessage_updateDoc"
    /\ IF messageDocs[k.messageId].exists
       THEN /\ messageDocs' = [messageDocs EXCEPT ![k.messageId].deletedFor =
                                  @ \cup {k.userId}]
            /\ MsgStep(i, [k EXCEPT !.pc = "done", !.result = "success"])
       ELSE /\ UNCHANGED messageDocs
            /\ MsgStep(i, [k EXCEPT !.pc = "done", !.result = "failure"])

MessageNext ==
    \/ \E u \in Actors, m \in MessageIds, e \in Emojis : addReaction(u, m, e)
    \/ \E u \in Actors, m \in MessageIds, e \in Emojis : removeReaction(u, m, e)
    \/ \E u \in Actors, m \in MessageIds, t \in NewTexts : editMessage(u, m, t)
    \/ \E u \in Actors, m \in MessageIds, b \in BOOLEAN : deleteMessage(u, m, b)
    \/ \E i \in DOMAIN msgCalls : deleteMessage_getDoc(i)
    \/ \E i \in DOMAIN msgCalls : deleteMessage_deleteDoc(i)
    \/ \E i \in DOMAIN msgCalls : deleteMessage_updateDoc(i)

SpecMessage == StoreInit /\ [][MessageNext]_vars

\* whether userId holds emoji on the message doc
Holds(doc, userId, emoji) ==
    doc.exists /\ \E i \in DOMAIN doc.reactions :
        doc.reactions[i] = [userId |-> userId, emoji |-> emoji]

\* C26: react(message, emoji) is a toggle: the call removes the emoji when
\* the caller holds it and adds it otherwise, so that two calls in a row
\* leave the reactions as they were.
ReactToggles ==
    [][\A u \in Actors, m \in MessageIds, e \in Emojis :
          addReaction(u, m, e)
             => (Holds(messageDocs'[m], u, e) <=> ~Holds(messageDocs[m], u, e))]_vars

\* C27: every message's reactions hold at most one entry per (userId, emoji).
OneReactionPerPair ==
    \A m \in MessageIds :
        messageDocs[m].exists =>
            \A i, j \in DOMAIN messageDocs[m].reactions :
                messageDocs[m].reactions[i] = messageDocs[m].reactions[j] => i = j

\* C27 witness: the same user added the same emoji twice, with a
\* removeReaction in the same run, on a message that is still there
ReactedTwice ==
    \E i, j, k \in DOMAIN msgCalls :
        /\ i < j
        /\ msgCalls[i].op = "addReaction" /\ msgCalls[j].op = "addReaction"
        /\ msgCalls[i].userId = msgCalls[j].userId
        /\ msgCalls[i].emoji = msgCalls[j].emoji
        /\ msgCalls[k].op = "removeReaction"
        /\ messageDocs[msgCalls[i].messageId].exists

\* a call to edit the message or to delete it for everyone, made by a user
\* who did not send it
ByOther(k) ==
    /\ k.userId # Author(k.messageId)
    /\ k.op = "editMessage" \/ (k.op = "deleteMessage" /\ k.deleteForEveryone)

\* C28: editMessage and deleteMessage for everyone called by a user who is
\* not the message's sender return a failure and leave the message's text,
\* edited flag and existence as they were.
OnlySenderChanges ==
    /\ [](\A i \in DOMAIN msgCalls :
             (ByOther(msgCalls[i]) /\ msgCalls[i].pc = "done")
                => msgCalls[i].result = "failure")
    /\ [][\A m \in MessageIds :
             (\/ \E u \in Actors \ {Author(m)}, t \in NewTexts : editMessage(u, m, t)
              \/ \E i \in DOMAIN msgCalls :
                    /\ ByOther(msgCalls[i]) /\ msgCalls[i].messageId = m
                    /\ msgCalls'[i] # msgCalls[i])
                => messageDocs'[m] = messageDocs[m]]_vars

\* C28 witness: both calls by the other member have returned and the
\* message is there as its sender wrote it
OtherWasRefused ==
    /\ \E i, j \in DOMAIN msgCalls :
          /\ ByOther(msgCalls[i]) /\ msgCalls[i].op = "editMessage"
          /\ ByOther(msgCalls[j]) /\ msgCalls[j].op = "deleteMessage"
          /\ msgCalls[j].pc = "done"
    /\ \A m \in MessageIds : messageDocs[m] = messageData(Author(m), "hello")

-----------------------------------------------------------------------------
(***************************************************************************)
(* ChatManager.sendMessage on the open conversation.  A text is a sequence *)
(* of characters here.  ChatManager.messages is what the messages listener *)
(* last delivered: the documents of the Remote Store and, after them, the  *)
(* writes of this session the store has not acknowledged (timestamp 0:     *)
(* not set yet), which the Firestore client shows to its own listeners.    *)
(***************************************************************************)
\* ChatManager.sendMessage calls in one behaviour
MaxSends == 2

\* what chatInput.value may be
Inputs == {<<>>, <<" ">>, <<"h">>, <<" ", "h", " ">>}

\* String.prototype.trim: white space is dropped at both ends
RECURSIVE trimStart(_)
trimStart(s) == IF s # <<>> /\ Head(s) = " " THEN trimStart(Tail(s)) ELSE s

RECURSIVE trimEnd(_)
trimEnd(s) ==
    IF s # <<>> /\ s[Len(s)] = " " THEN trimEnd(SubSeq(s, 1, Len(s) - 1)) ELSE s

\* a chatInput.value.trim() that trims nothing
trim_none(s) == s

trim(s) == trimEnd(trimStart(s))

\* the message documents of this session's writes that are not acknowledged
PendingOf(ss) ==
    LET sel == SelectSeq([i \in 1..Len(ss) |-> i],
                         LAMBDA i : ss[i].pc = "sendMessage_addDoc")
    IN [n \in 1..Len(sel) |->
           [senderId |-> Viewer, text |-> ss[sel[n]].text, timestamp |-> 0,
            read |-> FALSE]]

\* what the messages listener of the open conversation delivers
onMessagesUpdate(msgs, ss) == msgs \o PendingOf(ss)

SendUnchanged ==
    /\ UNCHANGED <<chatRequests, blockedUsers, calls, returned, started, concurrent>>
    /\ UNCHANGED <<watchVars, feedVars, currentChatId, currentChatUser, opens>>
    /\ UNCHANGED <<loads, presenceVars, pinVars, msgVars, nameVars, idVars, bootVars>>
    /\ UNCHANGED <<typingIn, isOnline, pinnedChats, seconds, lastStart, keystrokes>>

\* ChatManager.sendMessage up to its first await: nothing is sent without an
\* open conversation or when the trimmed text is empty; otherwise
\* firebaseService.sendMessage runs up to addDoc
ChatManager_sendMessage(value) ==
    LET text == trim(value)
        k == [value |-> value, text |-> text, chatId |-> currentChatId,
              pc |-> IF currentChatId = <<>> \/ text = <<>>
                     THEN "done" ELSE "sendMessage_addDoc",
              result |-> "none", toast |-> FALSE, messageId |-> 0]
    IN
    /\ Len(sends) < MaxSends
    /\ sends' = Append(sends, k)
    /\ localMessages' = IF k.pc = "done" THEN localMessages
                        ELSE onMessagesUpdate(orderBy(messages[currentChatId]), sends')
    /\ UNCHANGED <<chats, messages, clock, failures>>
    /\ UNCHANGED <<isTyping, typingTimeouts, timers, writes>>
    /\ SendUnchanged

\* sendMessage: await addDoc(messagesRef, messageData)
send_addDoc(i) ==
    LET k == sends[i] IN
    /\ k.pc = "sendMessage_addDoc"
    /\ messages' = [messages EXCEPT ![k.chatId] =
           Append(@, [senderId |-> Viewer, text |-> k.text,
                      timestamp |-> clock, read |-> FALSE])]
    /\ clock' = clock + 1
    /\ sends' = [sends EXCEPT ![i].pc = "sendMessage_getChat",
                              ![i].messageId = Len(messages'[k.chatId])]
    /\ localMessages' = onMessagesUpdate(orderBy(messages'[k.chatId]), sends')
    /\ UNCHANGED <<chats, failures>>
    /\ UNCHANGED <<isTyping, typingTimeouts, timers, writes>>
    /\ SendUnchanged

\* sendMessage: await this.getChat(chatId)
send_getChat(i) ==
    LET k == sends[i] IN
    /\ k.pc = "sendMessage_getChat"
    /\ sends' = IF chats[k.chatId].exists
                THEN [sends EXCEPT ![i].pc = "sendMessage_updateDoc"]
                ELSE [sends EXCEPT ![i].pc = "result", ![i].result = "success"]
    /\ UNCHANGED <<chats, messages, clock, failures, localMessages>>
    /\ UNCHANGED <<isTyping, typingTimeouts, timers, writes>>
    /\ SendUnchanged

\* sendMessage: await updateDoc(chatRef, {lastMessage, lastMessageTime, unreadCount})
send_updateDoc(i) ==
    LET k == sends[i] IN
    /\ k.pc = "sendMessage_updateDoc"
    /\ IF chats[k.chatId].exists
       THEN /\ chats' = [chats EXCEPT ![k.chatId] =
                            chatAfterMessage(@, Viewer, k.text, clock)]
            /\ clock' = clock + 1
            /\ sends' = [sends EXCEPT ![i].pc = "result", ![i].result = "success"]
       ELSE /\ UNCHANGED <<chats, clock>>
            /\ sends' = [sends EXCEPT ![i].pc = "result", ![i].result = "fail"]
    /\ UNCHANGED <<messages, failures, localMessages>>
    /\ UNCHANGED <<isTyping, typingTimeouts, timers, writes>>
    /\ SendUnchanged

\* the remote call the send is waiting for rejects: getChat catches it and
\* returns null, sendMessage catches the others and returns a failure.  A
\* write that is rejected leaves the listener's view too.
send_reject(i) ==
    LET k == sends[i] IN
    /\ k.pc \in {"sendMessage_addDoc", "sendMessage_getChat", "sendMessage_updateDoc"}
    /\ failures < MaxFailures
    /\ failures' = failures + 1
    /\ sends' = [sends EXCEPT ![i].pc = "result",
                              ![i].result = IF k.pc = "sendMessage_getChat"
                                            THEN "success" ELSE "fail"]
    /\ localMessages' = IF k.pc = "sendMessage_addDoc"
                        THEN onMessagesUpdate(orderBy(messages[k.chatId]), sends')
                        ELSE localMessages
    /\ UNCHANGED <<chats, messages, clock>>
    /\ UNCHANGED <<isTyping, typingTimeouts, timers, writes>>
    /\ SendUnchanged

\* ChatManager.sendMessage after firebaseService.sendMessage returned: on
\* success the input is cleared and stopTyping runs, otherwise the toast
send_result(i) ==
    LET k == sends[i] IN
    /\ k.pc = "result"
    /\ sends' = [sends EXCEPT ![i].pc = "done", ![i].toast = (k.result # "success")]
    /\ IF k.result = "success"
       THEN stopTypingBody(k.chatId, timers)
       ELSE UNCHANGED <<isTyping, typingTimeouts, timers, writes>>
    /\ UNCHANGED <<chats, messages, clock, failures, localMessages>>
    /\ SendUnchanged

SendNext ==
    \/ \E v \in Inputs : ChatManager_sendMessage(v)
    \/ \E i \in DOMAIN sends : send_addDoc(i)
    \/ \E i \in DOMAIN sends : send_getChat(i)
    \/ \E i \in DOMAIN sends : send_updateDoc(i)
    \/ \E i \in DOMAIN sends : send_reject(i)
    \/ \E i \in DOMAIN sends : send_result(i)

\* the conversation of the viewer and b is open, with one message of b in
\* it that the viewer has read, and its messages listener is live
SendInit ==
    LET chatId == generateChatId(Viewer, <<"b">>) IN
    /\ chats = [id \in ChatIds |->
           IF id = chatId
           THEN [chatAfterMessage(chatDoc(<<"b">>, Viewer, 1), <<"b">>, <<"h">>, 2)
                    EXCEPT !.unreadCount[Viewer] = 0]
           ELSE NoDoc]
    /\ messages = [id \in ChatIds |->
           IF id = chatId
           THEN <<[senderId |-> <<"b">>, text |-> <<"h">>, timestamp |-> 2,
                   read |-> TRUE]>>
           ELSE <<>>]
    /\ chatRequests = <<>>
    /\ blockedUsers = [u \in UserIds |-> {}]
    /\ clock = 3
    /\ NoCalls
    /\ pinnedChats = {}
    /\ watches = setupMessagesListener(<<>>, chatId)
    /\ unsubscribers = [k \in FirebaseKeys |->
                           IF k = MessagesKey(chatId) THEN 1 ELSE 0]
    /\ currentChatId = chatId
    /\ currentChatUser = <<"b">>
    /\ localMessages = messages[chatId]
    /\ SessionRest

SpecSend == SendInit /\ [][SendNext]_vars

\* the text is white space only
Blank(value) == \A n \in DOMAIN value : value[n] = " "

Unconfirmed == {n \in DOMAIN localMessages : localMessages[n].timestamp = 0}

\* C30: send is optimistic: before the Remote Store acknowledges the write
\* the local message log holds an unconfirmed entry for it; at the
\* acknowledgement the entry becomes the confirmed message of that id; on a
\* failure the entry is removed and an error is surfaced.
SendIsOptimistic ==
    \A i \in DOMAIN sends :
        LET k == sends[i] IN
        /\ k.pc = "sendMessage_addDoc"
              => \E n \in Unconfirmed : localMessages[n].text = k.text
        /\ k.messageId # 0
              => /\ k.messageId \in DOMAIN localMessages \ Unconfirmed
                 /\ localMessages[k.messageId].text = k.text
                 /\ Cardinality(Unconfirmed)
                       = Cardinality({j \in DOMAIN sends :
                                         sends[j].pc = "sendMessage_addDoc"})
        /\ (k.pc = "done" /\ k.result = "fail")
              => /\ k.toast
                 /\ k.messageId = 0

-----------------------------------------------------------------------------
(***************************************************************************)
(* The message list of a conversation: what getChatMessages returns and    *)
(* what the messages listener delivers, while both members send.           *)
(***************************************************************************)
\* the callback RealTimeService.setupChatUpdates gives setupMessagesListener:
\* a snapshot of the query is handed to onMessagesUpdate, which replaces
\* ChatManager.messages, and markAllMessagesAsRead is called when it holds
\* an unread message of the other member
messages_onSnapshot(w) ==
    LET chatId == watches[w].key[2]
        snapshot == onMessagesUpdate(orderBy(messages[chatId]), sends)
        unreadMessages == {n \in DOMAIN snapshot :
                              snapshot[n].senderId # Viewer /\ ~snapshot[n].read}
    IN
    /\ watches[w].live
    /\ watches[w].key[1] = "messages"
    /\ localMessages' = snapshot
    /\ opens' = IF unreadMessages # {}
                THEN opens \cup {[id |-> 0, chatId |-> chatId,
                                  pc |-> "markMessagesAsRead_getDocs", snap |-> {}]}
                ELSE opens
    /\ UNCHANGED <<currentChatId, currentChatUser>>
    /\ UNCHANGED <<storeVars, callVars, watchVars, feedVars, clientVars>>

\* the conversation of the viewer and b
LogChat == generateChatId(Viewer, <<"b">>)

\* the members, each sending from a session of their own
LogSenders == <<Viewer, <<"b">>>>

\* the viewer opens the conversation, once
LogOpen ==
    /\ watches = <<>>
    /\ opens = {}
    /\ openChat(LogChat, <<"b">>)

LogNext ==
    \/ LogOpen
    \/ \E t \in opens : openChat_getChatMessages(t)
    \/ \E t \in opens : markMessagesAsRead_getDocs(t)
    \/ \E t \in opens : markMessagesAsRead_commit(t)
    \/ \E t \in opens : markMessagesAsRead_updateDoc(t)
    \/ \E t \in opens : openChat_setupChatUpdates(t)
    \/ \E w \in DOMAIN watches : messages_onSnapshot(w)
    \/ \E c \in DOMAIN LogSenders :
        \/ sendMessage(c, LogChat, LogSenders[c], "hello")
        \/ sendMessage_addDoc(c)
        \/ sendMessage_getChat(c)
        \/ sendMessage_updateDoc(c)
        \/ Return(c)

\* a message as the store holds it
LogMessage(senderId, timestamp) ==
    [senderId |-> senderId, text |-> "hello", timestamp |-> timestamp, read |-> FALSE]

\* message documents the conversation may hold at the start, in the order of
\* their ids, which the client draws at random: the order of the ids is not
\* the order of the timestamps
LogSeeds ==
    {<<>>,
     <<LogMessage(<<"b">>, 1), LogMessage(Viewer, 2)>>,
     <<LogMessage(<<"b">>, 2), LogMessage(Viewer, 1)>>,
     <<LogMessage(Viewer, 2), LogMessage(<<"b">>, 2)>>}

LogInit ==
    /\ \E seed \in LogSeeds :
        /\ messages = [id \in ChatIds |-> IF id = LogChat THEN seed ELSE <<>>]
        /\ chats = [id \in ChatIds |->
               IF id = LogChat
               THEN [chatDoc(<<"b">>, Viewer, 0) EXCEPT
                        !.lastMessage = IF seed = <<>> THEN "" ELSE "hello",
                        !.lastMessageTime = IF seed = <<>> THEN 0 ELSE 2,
                        !.unreadCount = [u \in Actors |->
                            Cardinality({n \in DOMAIN seed : seed[n].senderId # u})]]
               ELSE NoDoc]
    /\ chatRequests = <<>>
    /\ blockedUsers = [u \in UserIds |-> {}]
    /\ clock = 3
    /\ NoCalls
    /\ pinnedChats = {}
    /\ SessionInit

SpecLog == LogInit /\ [][LogNext]_vars

\* C31: whatever the members send and however their sends interleave, the
\* message list a load of the conversation or a live messages snapshot
\* produces is in ascending order of the messages' timestamps.
LogAscending ==
    \A i, j \in DOMAIN localMessages :
        i < j => localMessages[i].timestamp <= localMessages[j].timestamp

\* C31 witness: the list holds messages of both members, sent in this run
\* and before it, while the documents' ids are not in the order of their
\* timestamps, and the messages listener is live
LogOfBothOutOfIdOrder ==
    /\ Len(localMessages) >= 4
    /\ \E i, j \in DOMAIN localMessages :
          localMessages[i].senderId # localMessages[j].senderId
    /\ messages[LogChat][1].timestamp > messages[LogChat][2].timestamp
    /\ LiveOn(MessagesKey(LogChat)) # {}

-----------------------------------------------------------------------------
(***************************************************************************)
(* RealTimeService.sendChatRequestRealTime: the check of the recipient's    *)
(* blocked set before FirebaseService.sendChatRequest.                     *)
(***************************************************************************)
\* up to the first await, firebaseService.isUserBlocked(toUserId, fromUserId)
sendChatRequestRealTime(c, fromUserId, toUserId) ==
    Begin(c, [Idle EXCEPT !.op = "sendChatRequest", !.pc = "isUserBlocked",
                          !.action = "realTime",
                          !.userId = fromUserId, !.otherId = toUserId])

\* isUserBlocked: await this.getUserDocument(userId), then
\* blockedUsers.includes(targetUserId); a blocked sender gets the failure,
\* anyone else goes on to firebaseService.sendChatRequest
isUserBlocked(c) ==
    LET k == calls[c] IN
    /\ k.pc = "isUserBlocked"
    /\ IF k.userId \in blockedUsers[k.otherId]
       THEN Goto(c, [k EXCEPT !.pc = "return", !.result = "fail"])
       ELSE Goto(c, [k EXCEPT !.pc = "getChatRequest"])
    /\ UNCHANGED storeVars

BlockedNext ==
    \E c \in Slots :
        \/ \E u, v \in Actors : u # v /\ sendChatRequestRealTime(c, u, v)
        \/ isUserBlocked(c)
        \/ sendChatRequest_getChatRequest(c)
        \/ sendChatRequest_getChat(c)
        \/ sendChatRequest_addDoc(c)
        \/ Reject(c)
        \/ Return(c)

\* a and b have no request and no conversation, and each may have blocked
\* the other
BlockedInit ==
    /\ EmptyStore
    /\ \E B \in [Actors -> SUBSET Actors] :
          /\ \A u \in Actors : u \notin B[u]
          /\ blockedUsers = [u \in UserIds |-> IF u \in Actors THEN B[u] ELSE {}]
    /\ NoCalls
    /\ pinnedChats = {}
    /\ SessionInit

SpecBlocked == BlockedInit /\ [][BlockedNext]_vars

\* C32: a chat request A sends to B while B has A in B's blocked set fails
\* and creates no ChatRequest.
BlockedRequestFails ==
    \A u, v \in Actors :
        u \in blockedUsers[v] =>
            /\ AnyFromTo(chatRequests, u, v) = {}
            /\ (returned.op = "sendChatRequest" /\ returned.userId = u
                   /\ returned.otherId = v) => returned.result = "fail"

-----------------------------------------------------------------------------
\* C33: when every earlier request of A to B is rejected or blocked, B does
\* not block A and A and B have no conversation, a new sendChatRequest of A
\* to B succeeds and leaves a pending request.
FreshRequestAfterTerminal ==
    \A u, v \in Actors :
        (/\ Sequential
         /\ returned.op = "sendChatRequest" /\ returned.action = "none"
         /\ returned.userId = u /\ returned.otherId = v
         /\ \E r \in DOMAIN chatRequests :
               /\ chatRequests[r].fromUserId = u /\ chatRequests[r].toUserId = v
               /\ chatRequests[r].status \in {"rejected", "blocked"}
         /\ \A r \in DOMAIN chatRequests :
               (chatRequests[r].fromUserId = u /\ chatRequests[r].toUserId = v)
                  => chatRequests[r].status \in {"rejected", "blocked", "pending"}
         /\ u \notin blockedUsers[v]
         /\ ~chats[generateChatId(u, v)].exists)
        => /\ returned.result = "success"
           /\ PendingFromTo(chatRequests, u, v) # {}

-----------------------------------------------------------------------------
(***************************************************************************)
(* Responses and blocks on a request that is there, by either user.        *)
(***************************************************************************)
\* the sender of the request acts in one invocation, its recipient in the other
Responders == <<(<<"a">>), (<<"b">>)>>

RespondNext ==
    \E c \in DOMAIN Responders :
        \/ \E r \in DOMAIN chatRequests, rsp \in Responses :
               respondToChatRequest(c, r, rsp, Responders[c])
        \/ respond_getDoc(c)
        \/ respond_updateDoc(c)
        \/ createChat_setDoc(c)
        \/ \E r \in DOMAIN chatRequests : blockUserFromRequest(c, r, Responders[c])
        \/ blockFrom_getDoc(c)
        \/ blockFrom_updateDoc(c)
        \/ toggle_getDoc(c)
        \/ toggle_arrayRemove(c)
        \/ toggle_arrayUnion(c)
        \/ toggle_getChat(c)
        \/ toggle_deleteDoc(c)
        \/ toggle_getDocs(c)
        \/ toggle_commit(c)
        \/ Reject(c)
        \/ Return(c)

\* a has sent b a request, which is pending; two sends that ran side by side
\* have left two of them
RespondInit ==
    /\ chatRequests \in {<<requestData(<<"a">>, <<"b">>)>>,
                         <<requestData(<<"a">>, <<"b">>), requestData(<<"a">>, <<"b">>)>>}
    /\ chats = [id \in ChatIds |-> NoDoc]
    /\ messages = [id \in ChatIds |-> <<>>]
    /\ clock = 2
    /\ blockedUsers = [u \in UserIds |-> {}]
    /\ NoCalls
    /\ pinnedChats = {}
    /\ SessionInit

SpecRespond == RespondInit /\ [][RespondNext]_vars

\* a response to, or a block on, a request by a user it was not sent to
NotRecipient(k) ==
    /\ k.op \in {"respondToChatRequest", "blockUserFromRequest"}
    /\ chatRequests[k.requestId].toUserId # k.userId

\* C34: a response or a block on a request by a user who is not the
\* request's toUserId fails, leaves the request's status as it was and
\* creates no Conversation.
OnlyRecipientResponds ==
    /\ [](NotRecipient(returned) => returned.result = "fail")
    /\ [][\A c \in Slots :
             (NotRecipient(calls[c]) /\ calls'[c] # calls[c])
                => /\ chatRequests' = chatRequests
                   /\ chats' = chats
                   /\ blockedUsers' = blockedUsers]_vars

\* C34 witness: the sender's own accept and the sender's own block of the
\* request have both been refused, and the request is pending with no
\* conversation
SenderWasRefused ==
    /\ NotRecipient(returned)
    /\ returned.op = "blockUserFromRequest"
    /\ returned.result = "fail"
    /\ returned.failedAt = "none"
    /\ chatRequests[1].status = "pending"
    /\ ~chats[generateChatId(<<"a">>, <<"b">>)].exists
    /\ started >= 2

-----------------------------------------------------------------------------
(***************************************************************************)
(* FirebaseService.createUserDocument and updateUserDocument: the user     *)
(* document and the usernames/<username> document that points at it.       *)
(***************************************************************************)
\* createUserDocument and updateUserDocument calls in one behaviour
MaxNameCalls == 3

\* the addresses accounts sign up with; Firebase Auth gives one account per
\* address
Emails == {[local |-> "ann", domain |-> "x"], [local |-> "ann", domain |-> "y"],
           [local |-> "bob", domain |-> "x"]}

\* userData.email?.split('@')[0]
split0(email) == email.local

NameCall(op, uid, username, pc) ==
    [op |-> op, uid |-> uid, username |-> username, old |-> "", pc |-> pc,
     rejected |-> FALSE]

NameRejections == Cardinality({i \in DOMAIN nameCalls : nameCalls[i].rejected})

NameUnchanged == UNCHANGED <<storeVars, callVars, watchVars, feedVars, chatVars, loads,
                             userVars, typingVars, presenceVars, pinVars, msgVars, sendVars, idVars, bootVars>>

NameStep(i, next) == nameCalls' = [nameCalls EXCEPT ![i] = next]

\* the sign-up calls createUserDocument(user.uid, {email}) for a new account
createUserDocument(uid, email) ==
    /\ Len(nameCalls) < MaxNameCalls
    /\ ~userDocs[uid].exists
    /\ \A i \in DOMAIN nameCalls : nameCalls[i].uid # uid
    /\ nameCalls' = Append(nameCalls,
                           NameCall("createUserDocument", uid, split0(email), "setDoc_user"))
    /\ UNCHANGED <<userDocs, usernames>>
    /\ NameUnchanged

\* await setDoc(userRef, userDoc)
create_setDoc_user(i) ==
    LET k == nameCalls[i] IN
    /\ k.pc = "setDoc_user"
    /\ userDocs' = [userDocs EXCEPT ![k.uid] = [exists |-> TRUE, username |-> k.username,
                                              onlineStatusMode |-> "auto"]]
    /\ NameStep(i, [k EXCEPT !.pc = "setDoc_username"])
    /\ UNCHANGED usernames
    /\ NameUnchanged

\* await setDoc(doc(db, "usernames", username), {uid})
create_setDoc_username(i) ==
    LET k == nameCalls[i] IN
    /\ k.pc = "setDoc_username"
    /\ usernames' = [usernames EXCEPT ![k.username] = [exists |-> TRUE, uid |-> k.uid]]
    /\ NameStep(i, [k EXCEPT !.pc = "success"])
    /\ UNCHANGED userDocs
    /\ NameUnchanged

\* updateUserDocument(uid, {username})
updateUserDocument(uid, username) ==
    /\ Len(nameCalls) < MaxNameCalls
    /\ userDocs[uid].exists
    /\ nameCalls' = Append(nameCalls,
                           NameCall("updateUserDocument", uid, username, "getUserDocument"))
    /\ UNCHANGED <<userDocs, usernames>>
    /\ NameUnchanged

\* await this.getUserDocument(uid), and the test that decides on the batch
update_getUserDocument(i) ==
    LET k == nameCalls[i] IN
    /\ k.pc = "getUserDocument"
    /\ IF userDocs[k.uid].exists /\ userDocs[k.uid].username # k.username
       THEN NameStep(i, [k EXCEPT !.pc = "commit", !.old = userDocs[k.uid].username])
       ELSE NameStep(i, [k EXCEPT !.pc = "updateDoc"])
    /\ UNCHANGED <<userDocs, usernames>>
    /\ NameUnchanged

\* await batch.commit(): the old mapping deleted, the new one set
update_commit(i) ==
    LET k == nameCalls[i] IN
    /\ k.pc = "commit"
    /\ usernames' = [n \in Usernames |->
                        IF n = k.username THEN [exists |-> TRUE, uid |-> k.uid]
                        ELSE IF n = k.old THEN NoDoc
                        ELSE usernames[n]]
    /\ NameStep(i, [k EXCEPT !.pc = "updateDoc"])
    /\ UNCHANGED userDocs
    /\ NameUnchanged

\* await updateDoc(userRef, {...updates})
update_updateDoc(i) ==
    LET k == nameCalls[i] IN
    /\ k.pc = "updateDoc"
    /\ userDocs' = [userDocs EXCEPT ![k.uid].username = k.username]
    /\ NameStep(i, [k EXCEPT !.pc = "success"])
    /\ UNCHANGED usernames
    /\ NameUnchanged

\* a remote call of the invocation rejects: getUserDocument catches its own
\* and answers { success: false }, which skips the batch; every other
\* rejection ends the call in its catch
name_reject(i) ==
    LET k == nameCalls[i] IN
    /\ k.pc \notin {"success", "fail"}
    /\ NameRejections < MaxFailures
    /\ NameStep(i, [k EXCEPT !.rejected = TRUE,
                             !.pc = IF k.pc = "getUserDocument" THEN "updateDoc"
                                    ELSE "fail"])
    /\ UNCHANGED <<userDocs, usernames>>
    /\ NameUnchanged

NameNext ==
    \/ \E uid \in Actors, email \in Emails : createUserDocument(uid, email)
    \/ \E uid \in Actors, n \in Usernames : updateUserDocument(uid, n)
    \/ \E i \in DOMAIN nameCalls : create_setDoc_user(i)
    \/ \E i \in DOMAIN nameCalls : create_setDoc_username(i)
    \/ \E i \in DOMAIN nameCalls : update_getUserDocument(i)
    \/ \E i \in DOMAIN nameCalls : update_commit(i)
    \/ \E i \in DOMAIN nameCalls : update_updateDoc(i)
    \/ \E i \in DOMAIN nameCalls : name_reject(i)

SpecName == StoreInit /\ [][NameNext]_vars

\* usernames[n] points at p exactly when p's username is n
PointsAt(n, p) == usernames[n].exists /\ usernames[n].uid = p
HasUsername(p, n) == userDocs[p].exists /\ userDocs[p].username = n

\* C35: in every reachable state the username index is in sync with the
\* users: usernames[n] points at p exactly when p's username is n, and no
\* two users share a username.
UsernameIndexInSync ==
    /\ \A n \in Usernames, p \in Actors : PointsAt(n, p) <=> HasUsername(p, n)
    /\ \A p, q \in Actors, n \in Usernames :
           HasUsername(p, n) /\ HasUsername(q, n) => p = q

-----------------------------------------------------------------------------
(***************************************************************************)
(* utils.generateChatId on user ids of any shape.                          *)
(***************************************************************************)
\* longest user id
MaxIdLen == 2

IdChars == {"a", "b", "_"}

RECURSIVE StringsOf(_)
StringsOf(n) ==
    IF n = 0 THEN {<<>>}
    ELSE {Append(s, ch) : s \in StringsOf(n - 1), ch \in IdChars}

\* user ids: non-empty strings over IdChars
Ids == UNION {StringsOf(n) : n \in 1..MaxIdLen}

\* generateChatId(userId1, userId2) is called on pair p, or on p the other
\* way round
generate(p, swapped) ==
    LET userId1 == IF swapped THEN pairs[p][2] ELSE pairs[p][1]
        userId2 == IF swapped THEN pairs[p][1] ELSE pairs[p][2]
    IN
    /\ generated' = generated \cup {[userId1 |-> userId1, userId2 |-> userId2,
                                     chatId |-> generateChatId(userId1, userId2)]}
    /\ UNCHANGED pairs
    /\ UNCHANGED <<storeVars, callVars, watchVars, feedVars, chatVars, loads,
                   userVars, typingVars, presenceVars, pinVars, msgVars, sendVars, nameVars, bootVars>>

generate_forward == \E p \in DOMAIN pairs : generate(p, FALSE)
generate_swapped == \E p \in DOMAIN pairs : generate(p, TRUE)

IdNext ==
    \/ generate_forward
    \/ generate_swapped

IdRest ==
    /\ EmptyStore
    /\ blockedUsers = [u \in UserIds |-> {}]
    /\ NoCalls
    /\ pinnedChats = {}
    /\ NoChatOpen
    /\ SessionCore
    /\ NoUsers
    /\ generated = {}
    /\ initialized = "no"

\* one pair of user ids
PairInit ==
    /\ IdRest
    /\ pairs \in {<<p>> : p \in Ids \X Ids}

SpecPair == PairInit /\ [][IdNext]_vars

\* s comes before t in the dictionary: at the first place where they differ
\* s has the smaller character, or s ends there and t goes on
LexLess(s, t) ==
    \E k \in 0..Len(s) :
        /\ k <= Len(t)
        /\ \A i \in 1..k : s[i] = t[i]
        /\ \/ k = Len(s) /\ k < Len(t)
           \/ k < Len(s) /\ k < Len(t) /\ CharCode(s[k + 1]) < CharCode(t[k + 1])

\* C36: generateChatId(A, B) = generateChatId(B, A) for all user ids A and B,
\* and the id has the lexicographically smaller of the two first.
ChatIdSymmetric ==
    \A r1, r2 \in generated :
        /\ (r1.userId1 = r2.userId2 /\ r1.userId2 = r2.userId1) => r1.chatId = r2.chatId
        /\ \E lo, hi \in {r1.userId1, r1.userId2} :
               /\ {lo, hi} = {r1.userId1, r1.userId2}
               /\ ~LexLess(hi, lo)
               /\ r1.chatId = lo \o <<"_">> \o hi

\* C36 witness: an id was generated for both orders of two different user ids
\* one of which starts with the other
BothOrdersOfPrefixPair ==
    \E r1, r2 \in generated :
        /\ r1.userId1 = r2.userId2 /\ r1.userId2 = r2.userId1
        /\ LexLess(r1.userId1, r1.userId2)
        /\ Len(r1.userId1) < Len(r1.userId2)
        /\ SubSeq(r1.userId2, 1, Len(r1.userId1)) = r1.userId1

\* two pairs of user ids
PairsInit ==
    /\ IdRest
    /\ pairs \in {<<p, q>> : p \in Ids \X Ids, q \in Ids \X Ids}

SpecPairs == PairsInit /\ [][IdNext]_vars

\* C40: two different unordered pairs of user ids never get the same chat
\* id, also when user ids contain the separator '_'.
ChatIdInjective ==
    \A r1, r2 \in generated :
        r1.chatId = r2.chatId => {r1.userId1, r1.userId2} = {r2.userId1, r2.userId2}

-----------------------------------------------------------------------------
(***************************************************************************)
(* The chat list's listener and the open conversation in one session.      *)
(***************************************************************************)
\* the viewer opens a chat of the list, which ChatManager.initialize has
\* loaded and subscribed to by then; one openChat at a time
CloseOpen(otherUser) ==
    /\ \E w \in DOMAIN watches : watches[w].key = ChatsKey
    /\ opens = {}
    /\ openChat(generateChatId(Viewer, otherUser), otherUser)

CloseNext ==
    \/ ChatManager_loadChats
    \/ \E l \in loads : loadChats_getDocs(l)
    \/ \E l \in loads : loadChats_getUserDocument(l)
    \/ ChatManager_setupChatsUpdates
    \/ \E u \in OtherUsers : Remote_ChatChanges(u)
    \/ \E h \in handlers : chats_onSnapshot(h)
    \/ \E h \in handlers : chats_getUserDocument(h)
    \/ \E h \in handlers : chats_getBlockedUsers(h)
    \/ \E h \in handlers : chats_blockedUser(h)
    \/ \E u \in OtherUsers : CloseOpen(u)
    \/ \E t \in opens : openChat_getChatMessages(t)
    \/ \E t \in opens : markMessagesAsRead_getDocs(t)
    \/ \E t \in opens : markMessagesAsRead_commit(t)
    \/ \E t \in opens : markMessagesAsRead_updateDoc(t)
    \/ \E t \in opens : openChat_setupChatUpdates(t)
    \/ closeChat

\* the stores the chat list starts on, nothing pinned
CloseInit ==
    /\ RosterInit
    /\ pinnedChats = {}

SpecClose == CloseInit /\ [][CloseNext]_vars

\* C37: closeChat cancels only the subscriptions of the conversation: a
\* chat-list subscription that is live when a conversation is closed is live
\* afterwards, so later changes to the viewer's chats still reach the list.
CloseKeepsRoster ==
    [][(closeChat /\ LiveOn(ChatsKey) # {}) => LiveOn(ChatsKey)' # {}]_vars

-----------------------------------------------------------------------------
(***************************************************************************)
(* Both members of a conversation send at the same time.                   *)
(***************************************************************************)
\* what each member sends: slot c is member LogSenders[c]
LastTexts == <<"hello", "bye">>

LastNext ==
    \E c \in DOMAIN LogSenders :
        \/ sendMessage(c, LogChat, LogSenders[c], LastTexts[c])
        \/ sendMessage_addDoc(c)
        \/ sendMessage_getChat(c)
        \/ sendMessage_updateDoc(c)
        \/ Reject(c)
        \/ Return(c)

\* the conversation of a and b, accepted and empty
LastInit ==
    /\ chats = [id \in ChatIds |-> IF id = LogChat THEN chatDoc(<<"b">>, Viewer, 1) ELSE NoDoc]
    /\ messages = [id \in ChatIds |-> <<>>]
    /\ chatRequests = <<>>
    /\ blockedUsers = [u \in UserIds |-> {}]
    /\ clock = 2
    /\ NoCalls
    /\ pinnedChats = {}
    /\ SessionInit

SpecLast == LastInit /\ [][LastNext]_vars

\* the text of the message of chat id with the greatest timestamp
LatestText(id) ==
    LET n == CHOOSE i \in DOMAIN messages[id] :
                 \A j \in DOMAIN messages[id] :
                     messages[id][j].timestamp <= messages[id][i].timestamp
    IN messages[id][n].text

\* C38: once every send in flight has completed (none of them failed), the
\* conversation's lastMessage is the text of its message with the greatest
\* timestamp, however the sends of the two members interleaved.
LastMessageIsLatest ==
    (/\ \A c \in Slots : calls[c].op = "idle"
     /\ failures = 0
     /\ messages[LogChat] # <<>>)
        => chats[LogChat].lastMessage = LatestText(LogChat)

-----------------------------------------------------------------------------
(***************************************************************************)
(* ChatXApp.initializeManagers: the chat manager, the UI manager, then the *)
(* presence updates.                                                       *)
(***************************************************************************)
BootUnchanged ==
    /\ UNCHANGED <<storeVars, callVars, watchVars, feedVars, chatVars>>
    /\ UNCHANGED <<loads, userVars, typingVars, presenceVars>>
    /\ UNCHANGED <<pinVars, msgVars, sendVars, nameVars, idVars>>

\* initializeManagers(userId) is called and this.initialized is not set
initializeManagers ==
    /\ initialized = "no"
    /\ initialized' = "chatManager"
    /\ BootUnchanged

\* await chatManager.initialize(userId) is running: loadChats and, after
\* it, setupChatsUpdates
chatManager_initialize == initialized = "chatManager"

\* await uiManager.initialize(userId), which ends in loadInitialData:
\* setupUserStatusUpdates(currentUserId, userData?.onlineStatusMode || 'auto')
loadInitialData ==
    /\ initialized = "chatManager"
    /\ \E w \in DOMAIN watches : watches[w].key = ChatsKey
    /\ setupUserStatusUpdates(userDocs[Viewer].onlineStatusMode)
    /\ initialized' = "uiManager"

\* realTimeService.setupUserStatusUpdates(userId, 'auto'); this.initialized = true
initializeManagers_status ==
    /\ initialized = "uiManager"
    /\ setupUserStatusUpdates("auto")
    /\ initialized' = "yes"

BootNext ==
    \/ initializeManagers
    \/ chatManager_initialize /\ ChatManager_loadChats
    \/ \E l \in loads : chatManager_initialize /\ loadChats_getDocs(l)
    \/ \E l \in loads : chatManager_initialize /\ loadChats_getUserDocument(l)
    \/ chatManager_initialize /\ ChatManager_setupChatsUpdates
    \/ loadInitialData
    \/ initializeManagers_status
    \/ \E h \in handlers : chats_onSnapshot(h)
    \/ \E h \in handlers : chats_getUserDocument(h)
    \/ \E h \in handlers : chats_getBlockedUsers(h)
    \/ \E h \in handlers : chats_blockedUser(h)
    \/ visibilitychange
    \/ \E i \in DOMAIN intervals : heartbeat(i)
    \/ updateDoc_settles

\* the viewer's user document holds a presence mode; the store is one the
\* chat list can start on
BootInit ==
    /\ chatRequests = <<>>
    /\ \E f \in SeedStores :
           /\ chats = [id \in ChatIds |-> IF id \in ViewerChats THEN f[id] ELSE NoDoc]
           /\ messages = [id \in ChatIds |->
                             IF id \in ViewerChats THEN SeedMessages(f[id]) ELSE <<>>]
    /\ clock = MaxSeedTime + 1
    /\ \E B \in SUBSET {<<"c">>} :
           blockedUsers = [u \in UserIds |-> IF u = Viewer THEN B ELSE {}]
    /\ NoCalls
    /\ pinnedChats = {}
    /\ NoChatOpen
    /\ SessionCore
    /\ \E m \in Modes :
           userDocs = [u \in Actors |->
                          IF u = Viewer
                          THEN [exists |-> TRUE, username |-> "ann", onlineStatusMode |-> m]
                          ELSE NoDoc]
    /\ usernames = [n \in Usernames |->
                       IF n = "ann" THEN [exists |-> TRUE, uid |-> Viewer] ELSE NoDoc]
    /\ nameCalls = <<>>
    /\ pairs = <<>>
    /\ generated = {}
    /\ initialized = "no"

SpecBoot == BootInit /\ [][BootNext]_vars

\* C39: when the initialization of the session has completed, the presence
\* mode in effect is the stored onlineStatusMode: the heartbeat is armed
\* exactly when the stored mode is auto.
BootAppliesStoredMode ==
    initialized = "yes" =>
        /\ mode = userDocs[Viewer].onlineStatusMode
        /\ (ActiveHeartbeats # {}) <=> (userDocs[Viewer].onlineStatusMode = "auto")
====
